---- MODULE Spec2Model ----
(***************************************************************************)
(* dead-or-alive: the resolution engine of lib/index.js as a state machine. *)
(* One check (one call of deadOrAlive) runs against a server whose answers  *)
(* are chosen nondeterministically at every fetch.  An action is the code   *)
(* that runs between two awaits (fetch, backoff sleep, body read).          *)
(*                                                                         *)
(* Strings that the code slices are sequences of tokens: the fragment `hi` *)
(* is <<"hi">>, the id `user-content-hi` is <<"user-content-", "hi">>, the  *)
(* empty string is <<>>.  `undefined` is None (<<>>), a defined value x is  *)
(* Some(x) (<<x>>); the tri-state `permanent` is "undefined", "true" or     *)
(* "false".                                                                *)
(***************************************************************************)
EXTENDS Integers, Sequences, FiniteSets, TLC

\* Largest `maxRedirects` / `maxRetries` option explored.
MaxRedirectsOpt == 1
MaxRetriesOpt == 1
\* Cap on the fetch attempts of one check (the counter is a history variable).
MaxFetches == 4
\* Longest `value` and longest list of `ideas` propose is given.
MaxValue == 3
MaxIdeas == 5

None == <<>>
Some(x) == <<x>>

VARIABLES
  cfg,     \* the options of the call, fixed for the check
  href,    \* the `href` argument
  state,   \* the State record: messages, permanent, redirects, retries, urls
  url,     \* the `url` argument of the running deadOrAliveInternal
  pc,      \* where the check is suspended
  result,  \* the record deadOrAlive resolves with; status "pending" before
  env,     \* what outlives one check: the answers a deterministic server
           \* is bound to, and the check made before this one (see below)
  call,    \* a call of one of the utilities (propose,
           \* sharedDeclarativeRefresh) looked at by itself: its name, its
           \* arguments and, once it returned, what it gave
  obs      \* history: what the server and the check did so far:
           \*   fetches      fetch attempts issued
           \*   responses    some fetch resolved with a response
           \*   rejected     fetches rejected before the first response
           \*   sleeps       backoff sleeps begun
           \*   nonPermanent a followed redirect was not an HTTP 301 or 308
           \*   lastTarget   the target of the last followed redirect
           \*   lastStatus   the status of the last response of the current
           \*                URL (0: none yet)
           \*   thrown       an error was thrown
           \*   contentType  the Content-Type of the last 2xx response of the
           \*                current URL ("-": no 2xx response yet)
           \*   read         the body of that response was asked for
           \*   tree         the document the check ended on: the parsed
           \*                body that did not redirect (None: no such)
           \*   failures     fetches rejected since the last response
           \*   timer        the delay of the running backoff timer, in
           \*                milliseconds (None: no such timer)
           \*   request      the last request handed to fetch (None: none yet)

vars == <<cfg, href, state, url, pc, result, env, call, obs>>

--------------------------------------------------------------------------
(* Values *)

Fragments == {<<>>, <<"hi">>, <<"user-content-", "hi">>, <<":~:", "text=hi">>}

\* A URL is its place in the chain of the check (`/0` is the URL of the
\* call, `/1` the target of the first redirect, ... as in test.js) and its
\* fragment.  The code never compares two URLs.
Urls == [path : Nat, hash : Fragments]

\* `response.url`: the request URL, serialized without its fragment.
ResponseUrl(u) == [path |-> u.path, hash |-> <<>>]

\* A VFileMessage built by the code.
\* `urls` are the URLs its reason names, in order; `status` the status code
\* its reason names (0: none).
VFileMessage(ruleId, fatal, urls, status) ==
  [ruleId |-> ruleId, fatal |-> fatal, urls |-> urls, status |-> status]

\* An error that is not a VFileMessage (a TypeError of `new URL`, a failed
\* body read, ...): it has no `ruleId` and no `fatal` field.
RawError ==
  [ruleId |-> "undefined", fatal |-> FALSE, urls |-> <<>>, status |-> 0]

\* The anchor allowlist: pairs of regular expressions, by name.
defaultAnchorAllowlist == <<[urlRe |-> "/./", fragmentRe |-> "/^:~:/"]>>

\* RegExp.prototype.test for the expressions above.
Test(re, s) ==
  CASE re = "/./" -> s # <<>>
    [] re = "/^:~:/" -> s # <<>> /\ Head(s) = ":~:"
    [] OTHER -> FALSE

defaultUserAgent ==
  "Mozilla/5.0 (Macintosh; Intel Mac OS X 10_15_7) AppleWebKit/537.36 (KHTML, like Gecko) Chrome/117.0.0.0 Safari/537.36"

\* The `userAgent` option: not given, or a string.
UserAgents == {None, Some("my-checker/1.0")}

\* The `sleep` option: not given (defaultSleep), or a function of the caller
\* (here: as many milliseconds as the number it is given).
Sleeps == {"defaultSleep", "custom"}

\* The `timeout` option: not a number (the default applies), or a number of
\* milliseconds.
Timeouts == {None, Some(50)}

\* The options.  `anchorAllowlist` and `resolveClobberPrefix` are read only
\* under `checkAnchor`, so they keep their defaults when it is off.
\* `userAgent`, `sleep` and `timeout` decide nothing but a header value and
\* two delays: they leave their defaults under one setting of the other
\* options only.
Configs ==
  {c \in [anchorAllowlist : {defaultAnchorAllowlist, <<>>},
          checkAnchor : BOOLEAN,
          findUrls : BOOLEAN,
          followMetaHttpEquiv : BOOLEAN,
          maxRedirects : 0..MaxRedirectsOpt,
          maxRetries : 0..MaxRetriesOpt,
          resolveClobberPrefix : BOOLEAN,
          sleep : Sleeps,
          timeout : Timeouts,
          userAgent : UserAgents] :
     /\ ~c.checkAnchor =>
          c.anchorAllowlist = defaultAnchorAllowlist /\ c.resolveClobberPrefix
     /\ (c.checkAnchor \/ c.findUrls \/ c.followMetaHttpEquiv) =>
          c.sleep = "defaultSleep" /\ c.userAgent = None
     /\ (c.checkAnchor \/ c.findUrls \/ c.followMetaHttpEquiv
           \/ c.sleep # "defaultSleep" \/ c.userAgent # None) =>
          c.timeout = None}

\* `settings.userAgent || defaultUserAgent`.
UserAgent(c) ==
  IF c.userAgent = None THEN defaultUserAgent ELSE Head(c.userAgent)

\* `typeof settings.timeout === 'number' ? settings.timeout : 3000`.
Timeout(c) == IF c.timeout = None THEN 3000 ELSE Head(c.timeout)

\* defaultSleep: `retries ** 3 * 1000`.
defaultSleep(retries) == retries * retries * retries * 1000

\* `state.sleep(retries)`.
Sleep(c, retries) ==
  IF c.sleep = "defaultSleep" THEN defaultSleep(retries) ELSE retries

\* The name fetch files a header of its `headers` init under: the name in
\* lower case.
HeaderName(key) ==
  CASE key = "userAgent" -> "useragent"
    [] key = "Upgrade-Insecure-Requests" -> "upgrade-insecure-requests"
    [] OTHER -> key

\* The request deadOrAliveInternal hands to fetch for `u`.  The URL is the
\* one that goes to the server: without fragment.
Request(c, u) ==
  [url |-> ResponseUrl(u),
   method |-> "GET",
   redirect |-> "manual",
   headers |->
     {[name |-> HeaderName(h.key), value |-> h.value] :
        h \in {[key |-> "userAgent", value |-> UserAgent(c)],
               [key |-> "Upgrade-Insecure-Requests", value |-> "1"],
               [key |-> "accept",
                value |-> "text/html,application/xhtml+xml,application/xml;q=0.9,*/*;q=0.8"],
               [key |-> "accept-encoding", value |-> "gzip"],
               [key |-> "accept-language", value |-> "en-US,en;q=0.9"]}}]

\* The `href` argument: a string that parses to `url`, or one that does not.
Hrefs == [valid : BOOLEAN, url : [path : {0}, hash : Fragments]]

Statuses == {200, 301, 302, 308, 404, 500}

\* The Location header: absent, not resolvable against the URL, or a target
\* with or without a fragment.
Locations ==
  [kind : {"none", "invalid"}, hash : {<<>>}]
  \cup [kind : {"url"}, hash : {<<>>, <<"hi">>}]

\* `new URL(location, url)`: the next URL of the chain.
Redirect(location, u) == [path |-> u.path + 1, hash |-> location.hash]

\* The Content-Type header: absent, text/html, another type, or a value
\* that is not a media type.
ContentTypes == {"none", "text/html", "text/css", "invalid"}

\* What one fetch can resolve with.  Headers the code does not read for a
\* status are left at their first value.
Responses ==
  {r \in [status : Statuses, location : Locations, contentType : ContentTypes] :
     /\ (r.status < 300 \/ r.status >= 400) => r.location.kind = "none"
     /\ r.status # 200 => r.contentType = "none"}

--------------------------------------------------------------------------
(* HTML documents *)

clobberPrefix == "user-content-"

\* Attribute values: absent (<<>>), `hi`, `user-content-hi`.
AttributeValues == {<<>>, <<"hi">>, <<clobberPrefix, "hi">>}

\* An element: its tag name and its `id` and `name` attributes (one of the
\* two at most is present here).
Elements ==
  {e \in [tagName : {"a", "h1"}, id : AttributeValues, name : AttributeValues] :
     e.id = <<>> \/ e.name = <<>>}

\* What `meta[http-equiv=refresh]` and sharedDeclarativeRefresh give for a
\* document: no such element, an element without `content`, a `content`
\* that is no redirect (absent), a `content` whose URL does not parse
\* (throws), or a `content` that redirects to `to`.
Metas ==
  [kind : {"none", "no-content", "absent", "invalid"}, hash : {<<>>}]
  \cup [kind : {"url"}, hash : {<<>>, <<"hi">>}]

\* A URL attribute value of the document: it resolves to `to`, or fails to.
Links == [ok : BOOLEAN, to : {"https://example.com/a"}]

\* The tree of a text/html body: its elements (at most one here), its meta
\* refresh, and its URL attribute values.
Docs ==
  [elements : {{}} \cup {{e} : e \in Elements},
   meta : Metas,
   links : {{}} \cup {{l} : l \in Links}]

\* The documents a server can answer a check of `u` under options `c` with.
\* The parts of a tree the code does not look at under these options (the
\* URL attributes, the anchors, what a meta refresh says) are left empty.
DocsFor(c, u) ==
  {d \in Docs :
     /\ ~c.followMetaHttpEquiv => d.meta \in {[kind |-> "none", hash |-> <<>>],
                                             [kind |-> "url", hash |-> <<>>]}
     /\ ~c.findUrls => d.links = {}
     /\ ~(c.checkAnchor /\ u.hash # <<>>) => d.elements = {}
     /\ (c.followMetaHttpEquiv /\ d.meta.kind \in {"url", "invalid"}) =>
          d.links = {} /\ d.elements = {}}

\* Mutant of SetAnchor: the clobber prefix stays on the key.
SetAnchorKeepsPrefix(type, value, options) ==
  [key |-> value, field |-> "system" \o type]

\* set() of getAnchors: the key and the kind one attribute value is recorded
\* under.
SetAnchor(type, value, options) ==
  IF value # <<>> /\ Head(value) = clobberPrefix /\ options.resolveClobberPrefix
  THEN [key |-> Tail(value), field |-> "user" \o type]
  ELSE [key |-> value, field |-> "system" \o type]

\* getAnchors: the map, as the set of (key, field) pairs that are set.
GetAnchors(tree, options) ==
  {SetAnchor("Id", e.id, options) : e \in {x \in tree.elements : x.id # <<>>}}
  \cup {SetAnchor("Name", e.name, options) :
          e \in {x \in tree.elements : x.tagName = "a" /\ x.name # <<>>}}

\* Mutant of FindUrls: a value that does not parse is kept as it is.
FindUrlsKeepsBroken(tree) == {l.to : l \in tree.links}

\* findUrls: the URL attribute values that parse, resolved.
FindUrls(tree) == {l.to : l \in {x \in tree.links : x.ok}}

--------------------------------------------------------------------------
(* deadOrAlive: the result records *)

\* Mutant of Resolved: the URL of the result is the URL that was asked for.
ResolvedAsAsked(st, u) ==
  [messages |-> st.messages,
   permanent |-> st.permanent,
   status |-> "alive",
   url |-> Some(href.url),
   urls |-> st.urls]

\* The `alive` record deadOrAlive returns when deadOrAliveInternal resolves.
Resolved(st, u) ==
  [messages |-> st.messages,
   permanent |-> st.permanent,
   status |-> "alive",
   url |-> Some(u),
   urls |-> st.urls]

\* Mutant of Caught: the cause is not put in front of the messages.
CaughtWithoutCause(st, cause) ==
  [messages |-> st.messages,
   permanent |-> st.permanent,
   status |-> "dead",
   url |-> None,
   urls |-> st.urls]

\* Mutant of Caught: only a VFileMessage is caught, anything else escapes.
CaughtOnlyMessages(st, cause) ==
  [messages |-> <<cause>> \o st.messages,
   permanent |-> st.permanent,
   status |-> IF cause.ruleId = "undefined" THEN "threw" ELSE "dead",
   url |-> None,
   urls |-> st.urls]

\* The `dead` record of the catch clause: whatever was thrown comes first.
Caught(st, cause) ==
  [messages |-> <<cause>> \o st.messages,
   permanent |-> st.permanent,
   status |-> "dead",
   url |-> None,
   urls |-> st.urls]

Pending ==
  [messages |-> <<>>, permanent |-> "undefined", status |-> "pending",
   url |-> None, urls |-> None]

\* `throw cause` anywhere below deadOrAlive's try block.
Throw(st, cause, o) ==
  /\ state' = st
  /\ pc' = "done"
  /\ result' = Caught(st, cause)
  /\ obs' = [o EXCEPT !.thrown = TRUE]
  /\ url' = url

\* `return u` out of deadOrAliveInternal and its callees.
Return(st, u, o) ==
  /\ state' = st
  /\ pc' = "done"
  /\ result' = Resolved(st, u)
  /\ obs' = o
  /\ url' = url

\* `return deadOrAliveInternal(state, redirect)`: the next hop.
Recurse(st, redirect, o) ==
  /\ state' = st
  /\ pc' = "enter"
  /\ url' = redirect
  /\ obs' = o
  /\ result' = result

\* retry(): count the retry, then sleep.
Retry(st, o) ==
  /\ state' = [st EXCEPT !.retries = @ + 1]
  /\ pc' = "sleeping"
  /\ obs' = [o EXCEPT !.sleeps = @ + 1,
                      !.timer = Some(Sleep(cfg, st.retries + 1))]
  /\ UNCHANGED <<url, result>>

--------------------------------------------------------------------------
(* deadOrAliveInternal: the decisions *)

\* Mutant of TooManyRedirects: the ceiling is exclusive.
TooManyRedirectsExclusive(st, c) == st.redirects >= c.maxRedirects

\* Mutant of TooManyRedirects: one redirect more than the ceiling passes.
TooManyRedirectsOneMore(st, c) == st.redirects > c.maxRedirects + 1

\* Mutant of TooManyRedirects: the wrong counter is compared.
TooManyRedirectsByRetries(st, c) == st.retries > c.maxRedirects

\* The redirect ceiling at the entry of deadOrAliveInternal.
TooManyRedirects(st, c) == st.redirects > c.maxRedirects

\* Mutant of ResetRetries: the reset is left out.
ResetRetriesNever(st) == st

\* `state.retries = 0` once a fetch has resolved.
ResetRetries(st) == [st EXCEPT !.retries = 0]

\* Mutant of MayRetry: the ceiling is compared inclusively.
MayRetryInclusive(st, c) == st.retries <= c.maxRetries

\* Mutant of MayRetry: the last retry is never made.
MayRetryOneLess(st, c) == st.retries + 1 < c.maxRetries

\* The retry ceiling, as tested by both retry sites.
MayRetry(st, c) == st.retries < c.maxRetries

\* Mutant of RetryableStatus: client errors are retried too.
RetryableStatusAnyError(status) == status < 400 \/ status >= 400

\* "When the server says the client is wrong, we don't try again."
RetryableStatus(status) == status < 400 \/ status >= 500

\* response.ok
Ok(status) == status >= 200 /\ status <= 299

IsRedirectStatus(status) == status >= 300 /\ status < 400

\* Mutant of NextPermanent: a 301 or 308 after the first redirect clears it.
NextPermanentFirstOnly(permanent, status) ==
  IF (status = 301 \/ status = 308) /\ permanent = "undefined"
  THEN "true"
  ELSE "false"

\* Mutant of NextPermanent: the first redirect sets true whatever its status.
NextPermanentAnyFirst(permanent, status) ==
  IF permanent = "undefined"
  THEN "true"
  ELSE (IF status = 301 \/ status = 308 THEN permanent ELSE "false")

\* Mutant of NextPermanent: the last redirect alone decides.
NextPermanentLastWins(permanent, status) ==
  IF status = 301 \/ status = 308 THEN "true" ELSE "false"

\* Permanence bookkeeping of an HTTP redirect.
NextPermanent(permanent, status) ==
  IF status = 301 \/ status = 308
  THEN (IF permanent = "undefined" THEN "true" ELSE permanent)
  ELSE "false"

\* Mutant of NeedsHtml: anchor checking alone asks for the body, fragment or
\* not.
NeedsHtmlWithoutHash(c, u) ==
  c.checkAnchor \/ c.findUrls \/ c.followMetaHttpEquiv

\* Whether handleTextHtml has to dig into the HTML.
NeedsHtml(c, u) ==
  (c.checkAnchor /\ u.hash # <<>>) \/ c.findUrls \/ c.followMetaHttpEquiv

\* Mutant of WarnsOnRedirect: the warning is tied to anchor checking, as the
\* other two lost-hash warnings are.
WarnsOnRedirectIfChecking(c, u) == c.checkAnchor /\ u.hash # <<>>

\* Mutant of FollowsMetaHttpEquiv: a refresh is followed whatever the option.
FollowsMetaHttpEquivAlways(c, meta) == meta.kind = "url"

\* Whether handleTextHtml follows the meta refresh of the document: the
\* option is on and sharedDeclarativeRefresh gives a URL for its `content`.
FollowsMetaHttpEquiv(c, meta) == c.followMetaHttpEquiv /\ meta.kind = "url"

\* Whether an HTTP redirect from `u` warns about the lost hash.
WarnsOnRedirect(c, u) == u.hash # <<>>

\* Mutant of WarnsOnMetaHttpEquiv: the warning does not ask for checkAnchor.
WarnsOnMetaHttpEquivAnyHash(c, u) == u.hash # <<>>

\* Whether a meta refresh on `u` warns about the lost hash.
WarnsOnMetaHttpEquiv(c, u) == c.checkAnchor /\ u.hash # <<>>

\* Whether a non-HTML answer for `u` warns about the lost hash.
WarnsOnNonHtml(c, u) == c.checkAnchor /\ u.hash # <<>>

\* Mutant of AnchorFound: the lookup forgets the clobber-prefixed names.
AnchorFoundNoUserName(anchors, fragment) ==
  \E a \in anchors :
    /\ a.key = fragment
    /\ a.field \in {"systemId", "systemName", "userId"}

\* The lookup of the fragment in the map of getAnchors: a node of any of
\* the four kinds.
AnchorFound(anchors, fragment) ==
  \E a \in anchors :
    /\ a.key = fragment
    /\ a.field \in {"systemId", "systemName", "userId", "userName"}

\* Mutant of Allowed: the two expressions are tested against the wrong text.
AllowedSwapped(allowlist, baseUrl, fragment) ==
  \E i \in 1..Len(allowlist) :
    Test(allowlist[i].urlRe, fragment) /\ Test(allowlist[i].fragmentRe, baseUrl)

\* The allowlist loop of handleTextHtml.
Allowed(allowlist, baseUrl, fragment) ==
  \E i \in 1..Len(allowlist) :
    Test(allowlist[i].urlRe, baseUrl) /\ Test(allowlist[i].fragmentRe, fragment)

\* origin + pathname of a URL, as the text the allowlist tests.
BaseUrl(u) == <<"https://example.com/", u.path>>

\* handleUnknown: a 2xx response that is not text/html.
HandleUnknown(st, o) ==
  LET st1 == IF WarnsOnNonHtml(cfg, url)
             THEN [st EXCEPT !.messages =
                     Append(@, VFileMessage("lost-hash-with-non-html", FALSE, <<url>>, 0))]
             ELSE st
  IN Return(st1, ResponseUrl(url), o)

\* handleTextHtml up to `await response.text()`.
HandleTextHtml(st, o) ==
  IF ~NeedsHtml(cfg, url)
  THEN Return(st, ResponseUrl(url), o)
  ELSE /\ state' = st
       /\ pc' = "reading"
       /\ obs' = [o EXCEPT !.read = TRUE]
       /\ UNCHANGED <<url, result>>

--------------------------------------------------------------------------
(* The state machine *)

\* The State object deadOrAlive allocates for a call (the options are in
\* `cfg`).
NewState ==
  [messages |-> <<>>, permanent |-> "undefined", redirects |-> 0,
   retries |-> 0, urls |-> None]

\* The history of a check that has not begun.
NoHistory ==
  [fetches |-> 0, responses |-> FALSE, rejected |-> 0, sleeps |-> 0,
   nonPermanent |-> FALSE, lastTarget |-> None, lastStatus |-> 0,
   thrown |-> FALSE, contentType |-> "-", read |-> FALSE,
   tree |-> None, failures |-> 0, timer |-> None, request |-> None]

\* Nothing outlives the check: no answer is bound, no check came before,
\* no other check is in progress, no timeout timer is armed and none fired
\* after its fetch was over.
NoEnv ==
  [answers |-> <<>>, first |-> None, parked |-> None, timers |-> {},
   late |-> FALSE]

\* No utility is looked at by itself.
NoCall == [name |-> "none"]

Init ==
  /\ cfg \in Configs
  /\ href \in {h \in Hrefs : ~h.valid => h.url.hash = <<>>}
  /\ state = NewState
  /\ url = href.url
  /\ pc = "start"
  /\ result = Pending
  /\ env = NoEnv
  /\ call = NoCall
  /\ obs = NoHistory

\* deadOrAlive: `new URL(href)` inside the try block, then the first hop.
DeadOrAlive ==
  /\ pc = "start"
  /\ IF href.valid
     THEN Recurse(state, href.url, obs)
     ELSE Throw(state, RawError, obs)
  /\ UNCHANGED <<cfg, href, env, call>>

\* deadOrAliveInternal from its entry to `await fetch(...)`, but for the
\* timer it arms.
OnEnter ==
  IF TooManyRedirects(state, cfg)
  THEN Throw(state, VFileMessage("max-redirect", TRUE, <<url>>, 0), obs)
  ELSE /\ obs.fetches < MaxFetches
       /\ pc' = "fetching"
       /\ obs' = [obs EXCEPT !.fetches = @ + 1,
                             !.request = Some(Request(cfg, url))]
       /\ UNCHANGED <<state, url, result>>

\* deadOrAliveInternal from its entry to `await fetch(...)`.
DeadOrAliveInternal ==
  /\ pc = "enter"
  /\ OnEnter
  /\ UNCHANGED <<cfg, href, env, call>>

\* The catch clause of deadOrAliveInternal.
OnRejection ==
  LET o == [obs EXCEPT !.rejected = IF obs.responses THEN @ ELSE @ + 1,
                       !.failures = @ + 1]
  IN IF MayRetry(state, cfg)
     THEN Retry(state, o)
     ELSE Throw(state, VFileMessage("fetch", TRUE, <<url>>, 0), o)

\* The fetch rejects (network error, or the timer aborted it): the catch
\* clause of deadOrAliveInternal.
FetchRejected ==
  /\ pc = "fetching"
  /\ OnRejection
  /\ UNCHANGED <<cfg, href, env, call>>

\* deadOrAliveInternal from `state.retries = 0` to its next await or its
\* end, for the `response` the fetch resolved with.
OnResponse(response) ==
  LET st == ResetRetries(state)
      o == [obs EXCEPT !.lastStatus = response.status, !.responses = TRUE,
                       !.contentType = IF Ok(response.status)
                                       THEN response.contentType ELSE "-",
                       !.read = FALSE,
                       !.failures = 0]
  IN IF IsRedirectStatus(response.status) /\ response.location.kind # "none"
     THEN IF response.location.kind = "invalid"
          THEN Throw(st, RawError, o)
          ELSE LET redirect == Redirect(response.location, url)
                   st1 == [st EXCEPT
                             !.permanent = NextPermanent(@, response.status),
                             !.messages =
                               IF WarnsOnRedirect(cfg, url)
                               THEN Append(@, VFileMessage("lost-hash-with-redirect",
                                                           FALSE, <<url, redirect>>, 0))
                               ELSE @,
                             !.redirects = @ + 1]
               IN Recurse(st1, redirect,
                          [o EXCEPT
                             !.nonPermanent =
                               @ \/ response.status \notin {301, 308},
                             !.lastTarget = Some(redirect),
                             !.lastStatus = 0])
     ELSE IF ~Ok(response.status)
     THEN IF MayRetry(st, cfg) /\ RetryableStatus(response.status)
          THEN Retry(st, o)
          ELSE Throw(st, VFileMessage("dead", TRUE, <<ResponseUrl(url)>>,
                                      response.status), o)
     ELSE IF response.contentType = "invalid"
     THEN Throw(st, RawError, o)
     ELSE IF response.contentType = "text/html"
     THEN HandleTextHtml(st, o)
     ELSE HandleUnknown(st, o)

\* The fetch resolves with a response.
FetchResolved ==
  /\ pc = "fetching"
  /\ \E response \in Responses : OnResponse(response)
  /\ UNCHANGED <<cfg, href, env, call>>

\* The backoff sleep of retry() elapses: the same URL again.
SleepElapsed ==
  /\ pc = "sleeping"
  /\ Recurse(state, url, [obs EXCEPT !.timer = None])
  /\ UNCHANGED <<cfg, href, env, call>>

\* `await response.text()` rejects.
TextRejected ==
  /\ pc = "reading"
  /\ Throw(state, RawError, obs)
  /\ UNCHANGED <<cfg, href, env, call>>

\* handleTextHtml from the parse of the body to its end, for the `tree`
\* the body parses to.
OnText(tree) ==
  IF cfg.followMetaHttpEquiv /\ tree.meta.kind = "invalid"
  THEN Throw(state, VFileMessage("shared-declarative-refresh", TRUE,
                                 <<ResponseUrl(url)>>, 0), obs)
  ELSE IF FollowsMetaHttpEquiv(cfg, tree.meta)
  THEN LET redirect == Redirect(tree.meta, ResponseUrl(url))
           st1 == [state EXCEPT
                     !.messages =
                       IF WarnsOnMetaHttpEquiv(cfg, url)
                       THEN Append(@, VFileMessage("lost-hash-with-meta-http-equiv",
                                                   FALSE, <<url, redirect>>, 0))
                       ELSE @,
                     !.permanent = "false",
                     !.redirects = @ + 1]
       IN Recurse(st1, redirect,
                  [obs EXCEPT
                     !.nonPermanent = TRUE,
                     !.lastTarget = Some(redirect),
                     !.lastStatus = 0,
                     !.contentType = "-",
                     !.read = FALSE])
  ELSE LET st1 == IF cfg.findUrls
                  THEN [state EXCEPT !.urls = Some(FindUrls(tree))]
                  ELSE state
           o == [obs EXCEPT !.tree = Some(tree)]
       IN IF cfg.checkAnchor /\ url.hash # <<>>
          THEN LET fragment == url.hash
                   found == [ResponseUrl(url) EXCEPT !.hash = url.hash]
               IN IF Allowed(cfg.anchorAllowlist, BaseUrl(ResponseUrl(url)), fragment)
                  THEN Return(st1, found, o)
                  ELSE IF AnchorFound(GetAnchors(tree, cfg), fragment)
                  THEN Return(st1, found, o)
                  ELSE Throw(st1, VFileMessage("missing-anchor", TRUE,
                                               <<ResponseUrl(url)>>, 0), o)
          ELSE Return(st1, [ResponseUrl(url) EXCEPT !.hash = url.hash], o)

\* `await response.text()` resolves.
TextResolved ==
  /\ pc = "reading"
  /\ \E tree \in DocsFor(cfg, url) : OnText(tree)
  /\ UNCHANGED <<cfg, href, env, call>>

Next ==
  \/ DeadOrAlive
  \/ DeadOrAliveInternal
  \/ FetchRejected
  \/ FetchResolved
  \/ SleepElapsed
  \/ TextRejected
  \/ TextResolved

Spec == Init /\ [][Next]_vars

--------------------------------------------------------------------------
(* Properties *)

Done == pc = "done"
Alive == Done /\ result.status = "alive"
Dead == Done /\ result.status = "dead"

\* The rule of the first message of a dead result ("none" otherwise).
FatalRule == IF Dead THEN Head(result.messages).ruleId ELSE "none"

FatalRules ==
  {"fetch", "dead", "max-redirect", "missing-anchor", "shared-declarative-refresh"}

WarningRules ==
  {"lost-hash-with-redirect", "lost-hash-with-meta-http-equiv",
   "lost-hash-with-non-html"}

\* C1: a finished call has one of two shapes: alive with a URL and no fatal
\* message, or dead without a URL and with at least one message.
C1_ResultShape ==
  Done =>
    \/ /\ result.status = "alive"
       /\ result.url # None
       /\ \A i \in 1..Len(result.messages) : ~result.messages[i].fatal
    \/ /\ result.status = "dead"
       /\ result.url = None
       /\ result.messages # <<>>

\* C1 witness: a dead result that carries its cause and a warning.
C1_Witness == Dead /\ Len(result.messages) = 2

\* C2: whatever is thrown during resolution (an href or a Location that does
\* not parse, a failed body read, a diagnostic) ends the call with a dead
\* result; nothing escapes the call.
C2_NothingEscapes ==
  /\ obs.thrown => Dead
  /\ Done => result.status \in {"alive", "dead"}

\* C2 witness: an error that is no diagnostic was thrown after a redirect,
\* and the call returned dead.
C2_Witness ==
  Dead /\ obs.thrown /\ Head(result.messages) = RawError /\ state.redirects = 1

\* C3 (as claimed): the two ceilings bound the fetch attempts of a check, so
\* no check makes more than (maxRedirects + 1) * (maxRetries + 1) of them.
C3_FetchesBounded ==
  obs.fetches <= (cfg.maxRedirects + 1) * (cfg.maxRetries + 1)

\* C4: maxRedirects is inclusive.  A URL is only fetched while at most
\* maxRedirects redirects were followed, a check that ends on a 2xx answer
\* followed at most maxRedirects redirects and, when alive, returns the last
\* URL of the chain; max-redirect is raised exactly by redirect number
\* maxRedirects + 1 and names its target.
C4_MaxRedirectsInclusive ==
  /\ pc \in {"fetching", "sleeping", "reading"} =>
       state.redirects <= cfg.maxRedirects
  /\ (Done /\ obs.lastStatus = 200) =>
       /\ state.redirects <= cfg.maxRedirects
       /\ FatalRule # "max-redirect"
  /\ Alive => result.url[1].path = state.redirects
  /\ (Dead /\ FatalRule = "max-redirect") =>
       /\ state.redirects = cfg.maxRedirects + 1
       /\ Len(result.messages[1].urls) = 1
       /\ Some(result.messages[1].urls[1]) = obs.lastTarget
       /\ result.messages[1].urls[1].path = cfg.maxRedirects + 1

\* C4 witness: with maxRedirects = 1 the second redirect ends the check.
C4_Witness == Dead /\ FatalRule = "max-redirect" /\ cfg.maxRedirects = 1

\* C5 (as claimed): a chain of maxRedirects + 1 redirects is still followed,
\* so a check that met exactly maxRedirects + 1 redirects does not die of
\* max-redirect.
C5_OneMoreRedirectAllowed ==
  (Dead /\ state.redirects = cfg.maxRedirects + 1) => FatalRule # "max-redirect"

\* C5 (amended): a chain of exactly maxRedirects redirects that ends on a 2xx
\* answer handled without error is alive with the last URL; redirect number
\* maxRedirects + 1 always ends the check dead with max-redirect naming its
\* target, and no further redirect is ever counted.
C5_ExactlyMaxRedirects ==
  /\ state.redirects <= cfg.maxRedirects + 1
  /\ (Done /\ state.redirects = cfg.maxRedirects + 1) =>
       /\ Dead
       /\ FatalRule = "max-redirect"
       /\ result.messages[1].urls = <<url>>
       /\ url.path = cfg.maxRedirects + 1
  /\ (Done /\ state.redirects = cfg.maxRedirects /\ obs.lastStatus = 200
        /\ ~obs.thrown) =>
       /\ Alive
       /\ result.url[1].path = cfg.maxRedirects

\* C5 witness: alive after exactly maxRedirects = 1 redirects.
C5_Witness == Alive /\ cfg.maxRedirects = 1 /\ state.redirects = 1

\* C6: transport failures alone.  A check in which every fetch was rejected
\* is dead with the fetch diagnostic as its only message after exactly
\* maxRetries + 1 attempts; for a URL without fragment, k rejections followed
\* by a 2xx answer means k <= maxRetries, and the result is alive with no
\* message unless handling the 2xx document itself throws.
C6_TransportRetries ==
  /\ ~obs.responses => obs.rejected = obs.fetches - (IF pc = "fetching" THEN 1 ELSE 0)
  /\ (Done /\ href.valid /\ ~obs.responses) =>
       /\ Dead
       /\ result.messages = <<VFileMessage("fetch", TRUE, <<href.url>>, 0)>>
       /\ obs.fetches = cfg.maxRetries + 1
  /\ (Done /\ href.url.hash = <<>> /\ state.redirects = 0
        /\ obs.lastStatus = 200 /\ obs.fetches = obs.rejected + 1) =>
       /\ obs.rejected <= cfg.maxRetries
       /\ Alive => result.messages = <<>>
       /\ Dead =>
            /\ Len(result.messages) = 1
            /\ FatalRule \in {"undefined", "shared-declarative-refresh"}

\* C6 witness: one rejected fetch, then a 2xx: alive without messages.
C6_Witness ==
  /\ Alive
  /\ href.url.hash = <<>>
  /\ state.redirects = 0
  /\ obs.rejected = 1
  /\ obs.fetches = 2
  /\ result.messages = <<>>

\* C7 (as claimed): status failures and transport failures of one URL share
\* one retry budget, so every URL of the chain is fetched at most
\* maxRetries + 1 times.
C7_OneRetryBudget ==
  obs.fetches <= (state.redirects + 1) * (cfg.maxRetries + 1)

\* C8: a 4xx answer is final: the check is dead at once with the `dead`
\* diagnostic (carrying the status and the response URL) as first message;
\* no retry is counted, no sleep begun and no fetch issued after it.
C8_ClientErrorNotRetried ==
  (obs.lastStatus >= 400 /\ obs.lastStatus <= 499) =>
    /\ Dead
    /\ result.messages[1] =
         VFileMessage("dead", TRUE, <<ResponseUrl(url)>>, obs.lastStatus)
    /\ state.retries = 0

\* C8 witness: a 404 that arrives on a retry, with retries still allowed
\* by maxRetries for a retryable status.
C8_Witness ==
  /\ Dead
  /\ obs.lastStatus = 404
  /\ cfg.maxRetries = 1
  /\ obs.rejected = 1
  /\ obs.fetches = 2

\* C9: permanent is undefined iff no redirect was followed, true iff every
\* followed redirect was an HTTP 301 or 308, and false otherwise; the result
\* carries that value, alive or dead.
PermanentOf(redirects, nonPermanent) ==
  IF redirects = 0 THEN "undefined"
  ELSE IF nonPermanent THEN "false"
  ELSE "true"

C9_PermanentField ==
  /\ state.permanent = PermanentOf(state.redirects, obs.nonPermanent)
  /\ Done => result.permanent = PermanentOf(state.redirects, obs.nonPermanent)

\* C9 witness: two permanent redirects in a row leave permanent true.
C9_Witness == Done /\ state.redirects = 2 /\ result.permanent = "true"

\* C10 (as claimed): the first message of a dead result is fatal and of one
\* of the five fatal kinds; every later message is a non-fatal warning.
\* Stated for the calls whose href parses, where every error comes from
\* what the server answered.
C10_FirstMessageFatal ==
  (Dead /\ href.valid) =>
    /\ result.messages[1].fatal
    /\ result.messages[1].ruleId \in FatalRules
    /\ \A i \in 2..Len(result.messages) :
         /\ ~result.messages[i].fatal
         /\ result.messages[i].ruleId \in WarningRules

--------------------------------------------------------------------------
(* Anchors, the allowlist and the HTML body *)

\* The check ended on a parsed text/html document under anchor checking of
\* a fragment.
AnchorChecked == Done /\ obs.tree # None /\ cfg.checkAnchor /\ url.hash # <<>>

\* The document the check ended on.
Tree == Head(obs.tree)

\* The response URL with the fragment of the checked URL put back.
WithFragment == [path |-> url.path, hash |-> url.hash]

\* The fragment is accepted by a rule of the allowlist.
Allowlisted == Allowed(cfg.anchorAllowlist, BaseUrl(ResponseUrl(url)), url.hash)

\* The document has an attribute value `v` that can name an anchor: an `id`
\* of any element or a `name` of an `a`.
HasAnchorValue(v) ==
  \E e \in Tree.elements : e.id = v \/ (e.tagName = "a" /\ e.name = v)

\* C11 (as claimed): under anchor checking of a fragment f on a terminal
\* text/html document, an id or an a[name] equal to f makes the check alive
\* with the fragment kept; an id or an a[name] equal to user-content-f does
\* so when resolveClobberPrefix is on and does not match when it is off; a
\* name on an element other than `a` never matches.
C11_AnchorKinds ==
  AnchorChecked =>
    /\ HasAnchorValue(url.hash) =>
         Alive /\ result.url = Some(WithFragment)
    /\ (HasAnchorValue(<<clobberPrefix>> \o url.hash) /\ cfg.resolveClobberPrefix) =>
         Alive /\ result.url = Some(WithFragment)
    /\ ( /\ ~Allowlisted
         /\ ~HasAnchorValue(url.hash)
         /\ ~(cfg.resolveClobberPrefix /\ HasAnchorValue(<<clobberPrefix>> \o url.hash)) ) =>
         Dead /\ FatalRule = "missing-anchor"

\* C12: under anchor checking of a fragment on a terminal text/html document
\* the check is dead with missing-anchor exactly when no allowlist rule
\* matches and the anchor index of the document has no record of any kind
\* under the fragment; otherwise it is alive and the URL is the response URL
\* with the fragment.
C12_MissingAnchorIff ==
  AnchorChecked =>
    IF ~Allowlisted /\ ~(\E a \in GetAnchors(Tree, cfg) : a.key = url.hash)
    THEN Dead /\ FatalRule = "missing-anchor"
    ELSE Alive /\ result.url = Some(WithFragment)

\* C12 witness: a fragment `hi` found under a clobber-prefixed name of an
\* `a`; the check is alive with the fragment.
C12_Witness ==
  /\ AnchorChecked /\ Alive /\ ~Allowlisted
  /\ \E a \in GetAnchors(Tree, cfg) : a.key = url.hash /\ a.field = "userName"

\* C13 (as claimed): whatever resolveClobberPrefix is, a document with an
\* element whose id is the fragment, or an `a` whose name is the fragment,
\* has the fragment accepted: no missing-anchor.
C13_ExactMatchAccepted ==
  (AnchorChecked /\ HasAnchorValue(url.hash)) =>
    /\ Alive
    /\ \A i \in 1..Len(result.messages) :
         result.messages[i].ruleId # "missing-anchor"

\* C14: a fragment a rule of the allowlist matches is alive with the
\* fragment, whatever the document holds; the default allowlist accepts every
\* fragment that starts with `:~:`; the empty allowlist accepts none, so
\* the document decides.
C14_AllowlistFirst ==
  AnchorChecked =>
    /\ (cfg.anchorAllowlist = defaultAnchorAllowlist /\ Head(url.hash) = ":~:") =>
         /\ Alive
         /\ result.url = Some(WithFragment)
         /\ result.messages = state.messages
    /\ (cfg.anchorAllowlist = <<>> /\ GetAnchors(Tree, cfg) = {}) =>
         Dead /\ FatalRule = "missing-anchor"

\* C14 witness: a text fragment accepted by the default allowlist on a
\* document that has an element, and none for it.
C14_Witness ==
  /\ AnchorChecked /\ Alive
  /\ cfg.anchorAllowlist = defaultAnchorAllowlist
  /\ Head(url.hash) = ":~:"
  /\ Tree.elements # {}

\* The check ended alive on a 2xx text/html response.
AliveOnHtml == Alive /\ obs.contentType = "text/html"

\* C15 (as claimed): when the check ends on a text/html document and anchor
\* checking is off or the URL has no fragment, the URL of the alive result
\* is the response URL with the fragment of the checked URL, whatever
\* findUrls and followMetaHttpEquiv are.
C15_FragmentReattached ==
  (AliveOnHtml /\ (~cfg.checkAnchor \/ url.hash = <<>>)) =>
    result.url = Some(WithFragment)

\* C16: the body of a text/html response is read and parsed exactly when
\* anchor checking is on and the URL has a fragment, or findUrls is on, or
\* followMetaHttpEquiv is on; no other body is read; with the three options
\* off no body is read on any hop and `urls` stays undefined.
C16_BodyReadIff ==
  /\ obs.contentType = "text/html" =>
       (obs.read <=> \/ cfg.checkAnchor /\ url.hash # <<>>
                     \/ cfg.findUrls
                     \/ cfg.followMetaHttpEquiv)
  /\ obs.read => obs.contentType = "text/html"
  /\ (pc = "reading" \/ obs.tree # None) => obs.read
  /\ (~cfg.checkAnchor /\ ~cfg.findUrls /\ ~cfg.followMetaHttpEquiv) =>
       /\ ~obs.read
       /\ state.urls = None
       /\ result.urls = None

\* C16 witness: a body read and parsed for the anchor alone.
C16_Witness ==
  /\ Alive /\ obs.read /\ obs.tree # None
  /\ cfg.checkAnchor /\ ~cfg.findUrls /\ ~cfg.followMetaHttpEquiv

--------------------------------------------------------------------------
(* The lost-hash warnings *)

\* The number of messages of rule `ruleId` in `ms`.
CountRule(ms, ruleId) ==
  Cardinality({i \in 1..Len(ms) : ms[i].ruleId = ruleId})

\* The step that follows an HTTP redirect: the response to the fetch makes
\* deadOrAliveInternal call itself.
HttpRedirectFollowed == pc = "fetching" /\ pc' = "enter"

\* C17: every HTTP redirect followed from a URL with a fragment appends one
\* lost-hash-with-redirect warning, with anchor checking or without; one
\* followed from a URL without fragment appends nothing, and no other step
\* adds such a warning.  The warning is not fatal: it does not end the check
\* and an alive result carries it.
C17_LostHashWithRedirect ==
  /\ [][ /\ HttpRedirectFollowed =>
              state'.messages =
                IF url.hash # <<>>
                THEN Append(state.messages,
                            VFileMessage("lost-hash-with-redirect", FALSE,
                                         <<url, url'>>, 0))
                ELSE state.messages
         /\ ~HttpRedirectFollowed =>
              CountRule(state'.messages, "lost-hash-with-redirect")
                = CountRule(state.messages, "lost-hash-with-redirect") ]_vars
  /\ [](Alive => /\ result.messages = state.messages
                 /\ result.url = Some([path |-> state.redirects,
                                       hash |-> Head(result.url).hash])
                 /\ state.redirects > 0 => Head(result.url).hash \in {<<>>, url.hash})

\* C17 witness: with anchor checking off, a URL with a fragment was
\* redirected over HTTP and answered 2xx: alive with the one warning.
C17_Witness ==
  /\ Alive /\ ~cfg.checkAnchor /\ href.url.hash # <<>>
  /\ state.redirects = 1
  /\ CountRule(result.messages, "lost-hash-with-redirect") = 1
  /\ Len(result.messages) = 1

\* C18 (as claimed): a 2xx response whose content type is not text/html, an
\* absent Content-Type included, ends the check alive on the response URL
\* without the fragment; its body is not read; it adds one
\* lost-hash-with-non-html warning exactly when the URL has a fragment and
\* anchor checking is on.
C18_NonHtmlAlive ==
  obs.contentType \notin {"-", "text/html"} =>
    /\ Alive
    /\ result.url = Some(ResponseUrl(url))
    /\ ~obs.read
    /\ CountRule(result.messages, "lost-hash-with-non-html")
         = IF cfg.checkAnchor /\ url.hash # <<>> THEN 1 ELSE 0

--------------------------------------------------------------------------
(* Discovered URLs and meta refresh *)

\* C19: `urls` is defined exactly when findUrls is on and the check reached
\* a terminal text/html document whose body was parsed; it is assigned once,
\* as the check ends, from that document: the URL attribute values that
\* parse, the others dropped.  Ending on a document adds no message but the
\* fatal one of a dead result.
C19_UrlsFromTerminalDocument ==
  /\ [](/\ state.urls # None <=> (cfg.findUrls /\ obs.tree # None)
        /\ state.urls # None =>
             /\ Done
             /\ result.urls = state.urls
             /\ \A u \in {l.to : l \in Links} :
                  u \in Head(state.urls) <=>
                    \E l \in Tree.links : l.ok /\ l.to = u
        /\ ~Done => result.urls = None)
  /\ [][ /\ state.urls # None => state'.urls = state.urls
         /\ (pc = "reading" /\ pc' = "done") =>
              /\ state'.messages = state.messages
              /\ result'.messages \in
                   {state.messages} \cup
                   {<<m>> \o state.messages :
                      m \in {VFileMessage("missing-anchor", TRUE, <<ResponseUrl(url)>>, 0),
                             VFileMessage("shared-declarative-refresh", TRUE,
                                          <<ResponseUrl(url)>>, 0),
                             RawError}} ]_vars

\* C19 witness: findUrls is on and the terminal document has one URL
\* attribute, which does not parse: `urls` is defined and empty, on a check
\* that died of a missing anchor.
C19_Witness ==
  /\ Dead /\ FatalRule = "missing-anchor"
  /\ result.urls = Some({})
  /\ \E l \in Tree.links : ~l.ok

\* The step that follows a meta refresh: the parsed body makes
\* deadOrAliveInternal call itself.
MetaRefreshFollowed == pc = "reading" /\ pc' = "enter"

\* C20: a meta refresh is followed only under followMetaHttpEquiv; following
\* it makes the target the URL of the next call, which is what is fetched
\* next, adds one to the redirect counter, sets permanent to false and
\* leaves the check unfinished.  A document the check ends on has, under
\* followMetaHttpEquiv, no refresh target: no meta refresh, one without
\* `content`, or one the parser gives nothing for; with the option off it
\* may have one.
C20_MetaRefresh ==
  /\ [][ /\ MetaRefreshFollowed =>
              /\ cfg.followMetaHttpEquiv
              /\ url'.path = url.path + 1
              /\ obs'.lastTarget = Some(url')
              /\ state'.redirects = state.redirects + 1
              /\ state'.permanent = "false"
              /\ result' = Pending
              /\ obs'.fetches = obs.fetches
         /\ (pc = "enter" /\ pc' = "fetching") =>
              url' = url /\ obs'.fetches = obs.fetches + 1 ]_vars
  /\ [](obs.tree # None =>
          /\ Done
          /\ cfg.followMetaHttpEquiv =>
               Tree.meta.kind \in {"none", "no-content", "absent"})

\* C20 witness: a check that followed a meta refresh and fetched its target.
C20_Witness ==
  /\ Alive /\ cfg.followMetaHttpEquiv /\ cfg.maxRedirects = 1
  /\ state.redirects = 1 /\ obs.fetches = 2 /\ obs.rejected = 0
  /\ result.permanent = "false"
  /\ CountRule(result.messages, "lost-hash-with-meta-http-equiv") = 1

--------------------------------------------------------------------------
(* Backoff and requests *)

\* C21 (as claimed): the k-th retry of one URL follows one sleep of
\* sleep(k) milliseconds (k^3 * 1000 with defaultSleep), whatever kind of
\* failure led to each retry.  Stated on the first hop, where the sleeps
\* begun so far are the retries of that URL.
C21_BackoffByOrdinal ==
  (pc = "sleeping" /\ state.redirects = 0) =>
    /\ obs.timer = Some(Sleep(cfg, obs.sleeps))
    /\ cfg.sleep = "defaultSleep" =>
         obs.timer = Some(obs.sleeps * obs.sleeps * obs.sleeps * 1000)

\* The value of the request header `name` (None: the request has no such
\* header).
Header(request, name) ==
  IF \E h \in request.headers : h.name = name
  THEN Some((CHOOSE h \in request.headers : h.name = name).value)
  ELSE None

\* C22 (as claimed): every request of a check is a GET with redirects left
\* to the caller (manual), carries the configured user agent as its
\* User-Agent header, and carries the accept, accept-language,
\* accept-encoding and upgrade-insecure-requests headers.
C22_RequestShape ==
  obs.request # None =>
    LET request == Head(obs.request)
    IN /\ request.method = "GET"
       /\ request.redirect = "manual"
       /\ Header(request, "user-agent") = Some(UserAgent(cfg))
       /\ \A name \in {"accept", "accept-language", "accept-encoding",
                       "upgrade-insecure-requests"} :
            Header(request, name) # None

--------------------------------------------------------------------------
(* Counters and permanence *)

\* A fetch is answered in this step (not rejected): the transport failures
\* since the last response are none.
Responded == pc = "fetching" /\ pc' # "fetching" /\ obs'.failures = 0

\* C25: a response resets the retry counter to 0 (a retry that this response
\* leads to counts 1 again), so when a redirect is followed the next URL
\* starts at 0 whatever the hops before used: its first maxRetries transport
\* failures in a row are retried and only the next one is fatal.
C25_FreshBudgetPerHop ==
  /\ [][ /\ Responded =>
              state'.retries = IF pc' = "sleeping" THEN 1 ELSE 0
         /\ (HttpRedirectFollowed \/ MetaRefreshFollowed) =>
              state'.retries = 0 /\ obs'.failures = 0 ]_vars
  /\ [](obs.lastStatus = 0 =>
          /\ state.retries =
               obs.failures - IF Dead /\ FatalRule = "fetch" THEN 1 ELSE 0
          /\ pc \in {"enter", "fetching", "sleeping"} =>
               obs.failures <= cfg.maxRetries
          /\ (Dead /\ FatalRule = "fetch") =>
               obs.failures = cfg.maxRetries + 1)

\* C25 witness: the first hop used its retry; the hop after the redirect
\* had a transport failure of its own retried, then answered 2xx.
C25_Witness ==
  /\ Alive /\ cfg.maxRetries = 1
  /\ state.redirects = 1 /\ obs.sleeps = 2 /\ obs.rejected = 1
  /\ obs.fetches = 4

\* C26: permanent changes only in the step that follows a redirect; it
\* becomes true only from unset, on the first redirect of the check, which
\* is then an HTTP 301 or 308; once false it stays false; a retry leaves it
\* as it is.
C26_PermanentTransitions ==
  [][ /\ state'.permanent # state.permanent =>
           HttpRedirectFollowed \/ MetaRefreshFollowed
      /\ (state'.permanent = "true" /\ state.permanent # "true") =>
           /\ state.permanent = "undefined"
           /\ state.redirects = 0
           /\ HttpRedirectFollowed
           /\ ~obs'.nonPermanent
      /\ state.permanent = "false" => state'.permanent = "false"
      /\ pc' = "sleeping" => state'.permanent = state.permanent ]_vars

\* C26 witness: a 301 or 308 followed after a redirect that was not
\* permanent: permanent is false in the end.
C26_Witness ==
  /\ Done /\ state.redirects = 2 /\ result.permanent = "false"
  /\ result.messages[1].ruleId = "max-redirect"

\* C27 (as claimed): a followed HTTP redirect sets permanent to true when
\* its status is 301 or 308 and permanent is unset, and to false in every
\* other case, a 301 or 308 that finds permanent set included.  (While no
\* followed redirect was other than a 301 or 308, this one is a 301 or 308
\* exactly when that is still so after it.)
C27_LaterPermanentClears ==
  [][ HttpRedirectFollowed =>
        state'.permanent =
          IF ~obs'.nonPermanent /\ state.permanent = "undefined"
          THEN "true"
          ELSE "false" ]_vars

\* C27 (amended): a followed HTTP redirect with status 301 or 308 sets
\* permanent to true when it is unset and leaves it as it is when it is set
\* (true stays true, false stays false); with every other status it sets
\* permanent to false.
C27_PermanenceBookkeeping ==
  [][ HttpRedirectFollowed =>
        state'.permanent =
          IF obs'.nonPermanent
          THEN "false"
          ELSE (IF state.permanent = "undefined" THEN "true" ELSE state.permanent) ]_vars

\* C27 witness: two permanent redirects in a row: the second finds
\* permanent set and leaves it true.
C27_Witness ==
  /\ Done /\ state.redirects = 2 /\ ~obs.nonPermanent
  /\ result.permanent = "true"
  /\ result.messages[1].ruleId = "max-redirect"

\* C28 (as claimed): in every state the redirect counter is at most
\* maxRedirects and the retry counter at most maxRetries.
C28_CountersWithinMaxima ==
  /\ state.redirects <= cfg.maxRedirects
  /\ state.retries <= cfg.maxRetries

\* C28 (amended): the retry counter is at most maxRetries; the redirect
\* counter is at most maxRedirects + 1, and it is maxRedirects + 1 only
\* between the redirect that passes the ceiling and the max-redirect error
\* that the next call raises before any fetch.
C28_CountersBounded ==
  /\ state.retries <= cfg.maxRetries
  /\ state.redirects <= cfg.maxRedirects + 1
  /\ state.redirects = cfg.maxRedirects + 1 =>
       \/ pc = "enter" /\ obs.lastStatus = 0
       \/ Dead /\ FatalRule = "max-redirect"

\* C28 witness: both counters at their maxima in one check, which goes on.
C28_Witness ==
  /\ pc = "sleeping"
  /\ cfg.maxRedirects = 1 /\ state.redirects = 1
  /\ cfg.maxRetries = 1 /\ state.retries = 1

\* C29: the redirect ceiling is tested before each fetch: no request goes
\* out while the redirect counter is above maxRedirects, so the URL that a
\* max-redirect error names was never requested; the counter never goes
\* down and a retry leaves it alone; the redirect that passes the ceiling
\* has its permanence and its lost-hash warning recorded before the error is
\* raised, and the dead result carries both.
C29_CeilingBeforeFetch ==
  /\ [](pc = "fetching" => state.redirects <= cfg.maxRedirects)
  /\ []((Dead /\ FatalRule = "max-redirect") =>
          /\ result.messages =
               <<VFileMessage("max-redirect", TRUE, <<url>>, 0)>> \o state.messages
          /\ obs.request # None
          /\ Head(obs.request).url.path < url.path
          /\ state.permanent # "undefined"
          /\ result.permanent = state.permanent)
  /\ [][ /\ state'.redirects >= state.redirects
         /\ pc' = "sleeping" => state'.redirects = state.redirects
         /\ obs'.request # obs.request =>
              /\ pc' = "fetching"
              /\ Head(obs'.request).url = ResponseUrl(url)
              /\ state.redirects <= cfg.maxRedirects
         /\ (HttpRedirectFollowed /\ state'.redirects > cfg.maxRedirects) =>
              /\ state'.permanent # "undefined"
              /\ url.hash # <<>> =>
                   state'.messages[Len(state'.messages)].ruleId
                     = "lost-hash-with-redirect"
         /\ (pc = "enter" /\ pc' = "done") =>
              state' = state /\ obs'.fetches = obs.fetches ]_vars

\* C29 witness: with maxRedirects 0, a permanent redirect from a URL with a
\* fragment: dead after one fetch, with the warning and permanent true.
C29_Witness ==
  /\ Dead /\ FatalRule = "max-redirect"
  /\ cfg.maxRedirects = 0 /\ obs.fetches = 1
  /\ result.permanent = "true"
  /\ Len(result.messages) = 2
  /\ result.messages[2].ruleId = "lost-hash-with-redirect"

\* The last response of the current URL was a 3xx without Location: one
\* that was not followed and whose Location did not fail to parse.
NoLocation ==
  /\ obs.lastStatus \in {301, 302, 308}
  /\ ~(Done /\ result.messages[1] = RawError)

\* C30 (as claimed): a 3xx response without Location is not followed:
\* the redirect counter, permanent, the messages and the URL stay as they
\* are; it is retried while the retry counter is below maxRetries, and
\* otherwise the check is dead with the `dead` diagnostic of that status.
C30_NoLocationRetried ==
  [][ (Responded /\ NoLocation') =>
        /\ state'.redirects = state.redirects
        /\ state'.permanent = state.permanent
        /\ state'.messages = state.messages
        /\ url' = url
        /\ IF state.retries < cfg.maxRetries
           THEN pc' = "sleeping"
           ELSE /\ pc' = "done"
                /\ result'.status = "dead"
                /\ result'.messages =
                     <<VFileMessage("dead", TRUE, <<ResponseUrl(url)>>,
                                    obs'.lastStatus)>> \o state.messages ]_vars

--------------------------------------------------------------------------
(* A second check against a deterministic server *)

\* The server is deterministic: a URL answered before gets the response it
\* got before, a URL not asked before gets any response, which it is bound
\* to from then on.  (Paths are asked in the order of the chain, so the bound
\* answers are a sequence.)
Known(u) == u.path + 1 <= Len(env.answers)

\* The fetch resolves with the response the server is bound to; fetches are
\* never rejected.
FetchAnswered ==
  /\ pc = "fetching"
  /\ \E response \in IF Known(url)
                      THEN {env.answers[url.path + 1].response}
                      ELSE Responses :
       /\ OnResponse(response)
       /\ env' = IF Known(url)
                 THEN env
                 ELSE [env EXCEPT
                         !.answers = Append(@, [response |-> response,
                                                tree |-> None])]
  /\ UNCHANGED <<cfg, href, call>>

\* `await response.text()` resolves with the body the server is bound to;
\* reads are never rejected.
TextAnswered ==
  /\ pc = "reading"
  /\ \E tree \in IF env.answers[url.path + 1].tree # None
                  THEN {Head(env.answers[url.path + 1].tree)}
                  ELSE DocsFor(cfg, url) :
       /\ OnText(tree)
       /\ env' = [env EXCEPT !.answers[url.path + 1].tree = Some(tree)]
  /\ UNCHANGED <<cfg, href, call>>

\* The caller, told that the URL is alive, calls deadOrAlive again with the
\* final URL of the result and the same options: a new State, the answers of
\* the server kept.
CheckAgain ==
  /\ pc = "done"
  /\ result.status = "alive"
  /\ env.first = None
  /\ env' = [env EXCEPT !.first = Some([result |-> result,
                                        redirects |-> state.redirects])]
  /\ href' = [valid |-> TRUE, url |-> Head(result.url)]
  /\ state' = NewState
  /\ url' = Head(result.url)
  /\ pc' = "start"
  /\ result' = Pending
  /\ obs' = NoHistory
  /\ UNCHANGED <<cfg, call>>

NextDeterministic ==
  \/ DeadOrAlive
  \/ DeadOrAliveInternal
  \/ FetchAnswered
  \/ SleepElapsed
  \/ TextAnswered
  \/ CheckAgain

SpecDeterministic == Init /\ [][NextDeterministic]_vars

\* The check in progress is the second one.
Again == env.first # None

\* C23: against a deterministic server without transport failures, the
\* check of the final URL of an alive check, with the same options, is
\* alive, has that URL as its final URL, follows no redirect and leaves
\* `permanent` undefined.
C23_Idempotent ==
  (Again /\ Done) =>
    /\ Alive
    /\ result.url = Head(env.first).result.url
    /\ state.redirects = 0
    /\ result.permanent = "undefined"

\* The second check is over, and the first one followed a redirect.
C23_Witness ==
  /\ Again
  /\ Done
  /\ Head(env.first).redirects > 0
  /\ Head(env.first).result.permanent = "true"

--------------------------------------------------------------------------
(* Two checks in progress at once *)

\* A call of deadOrAlive that is not the one running: its State, the current
\* URL, where it waits, its result and its history.  (The options and the
\* href are the same for the two calls; no call writes either.)
Check(st, u, at, r, o) ==
  [state |-> st, url |-> u, pc |-> at, result |-> r, obs |-> o]

\* The other call.
Parked == Head(env.parked)

\* Mutant of StateOf: one State object at module level for every call.
StateShared(own, other) == other

\* The State a call works on when it resumes, where `own` is the one it
\* allocated and `other` the one of the call that ran last: its own.
StateOf(own, other) == own

\* Where a call can be when another runs: at one of its awaits (the fetch,
\* the backoff sleep, the read of the body) or at its end.
Awaits == {"fetching", "sleeping", "reading", "done"}

\* The running call waits, and the event loop resumes the other one (or
\* the caller makes the other call, if it is not made yet).
Switch ==
  /\ pc \in Awaits
  /\ env.parked # None
  /\ Parked.pc # "done"
  /\ state' = StateOf(Parked.state, state)
  /\ url' = Parked.url
  /\ pc' = Parked.pc
  /\ result' = Parked.result
  /\ obs' = Parked.obs
  /\ env' = [env EXCEPT !.parked = Some(Check(state, url, pc, result, obs))]
  /\ UNCHANGED <<cfg, href, call>>

\* Two calls with the same href and options, neither made yet.  What a
\* call keeps between its awaits are the counters, `permanent`, `messages`
\* and `urls`: the options range over what decides those (the two limits at
\* their ends, the three switches), the href over a URL with and without a
\* fragment.
InitConcurrent ==
  /\ cfg \in {c \in Configs :
               /\ c.anchorAllowlist = defaultAnchorAllowlist
               /\ c.resolveClobberPrefix
               /\ c.sleep = "defaultSleep"
               /\ c.userAgent = None
               /\ c.timeout = None
               /\ c.maxRetries \in {0, MaxRetriesOpt}}
  /\ href \in {h \in Hrefs : h.valid /\ h.url.hash \in {<<>>, <<"hi">>}}
  /\ state = NewState
  /\ url = href.url
  /\ pc = "start"
  /\ result = Pending
  /\ env = [NoEnv EXCEPT
              !.parked = Some(Check(NewState, href.url, "start", Pending,
                                    NoHistory))]
  /\ call = NoCall
  /\ obs = NoHistory

NextConcurrent ==
  \/ DeadOrAlive
  \/ DeadOrAliveInternal
  \/ FetchAnswered
  \/ SleepElapsed
  \/ TextAnswered
  \/ Switch

SpecConcurrent == InitConcurrent /\ [][NextConcurrent]_vars

\* The two calls are over.
BothDone == env.parked # None /\ Done /\ Parked.pc = "done"

\* C24: two checks of the same href with the same options, interleaved at
\* their awaits in any order against a server that answers a URL the same
\* way each time, end with the same result and the same counters, which
\* are those of a check that runs alone (one interleaving runs the first
\* call to its end before the second is made).
C24_NoSharedState ==
  BothDone =>
    /\ result = Parked.result
    /\ state = Parked.state
    /\ obs.fetches = Parked.obs.fetches

\* Both calls are over; each followed a permanent redirect that lost the
\* fragment, and found URLs in the document it ended on.
C24_Witness ==
  /\ BothDone
  /\ Alive
  /\ state.redirects > 0
  /\ result.permanent = "true"
  /\ Len(result.messages) > 0
  /\ result.urls \notin {None, Some({})}

--------------------------------------------------------------------------
(* The lost hash of a meta refresh *)

\* C31: a step that follows a meta refresh appends one
\* lost-hash-with-meta-http-equiv warning, naming the URL and the target,
\* when the URL has a fragment and checkAnchor is on, and appends nothing
\* when checkAnchor is off or the URL has no fragment; no other step changes
\* the number of such warnings.
C31_LostHashWithMeta ==
  [][ /\ MetaRefreshFollowed =>
           state'.messages =
             IF cfg.checkAnchor /\ url.hash # <<>>
             THEN Append(state.messages,
                         VFileMessage("lost-hash-with-meta-http-equiv", FALSE,
                                      <<url, url'>>, 0))
             ELSE state.messages
      /\ ~MetaRefreshFollowed =>
           CountRule(state'.messages, "lost-hash-with-meta-http-equiv")
             = CountRule(state.messages, "lost-hash-with-meta-http-equiv") ]_vars

\* C31 witness: under checkAnchor a URL with a fragment was redirected by a
\* meta refresh, and the check went on to an alive end with the one warning.
C31_Witness ==
  /\ Alive /\ cfg.checkAnchor /\ cfg.followMetaHttpEquiv
  /\ href.url.hash # <<>>
  /\ state.redirects = 1
  /\ obs.lastStatus = 200
  /\ CountRule(result.messages, "lost-hash-with-meta-http-equiv") = 1

--------------------------------------------------------------------------
(* The timeout of a fetch *)

\* Mutant of Controller: one abort controller for all the fetches of a check.
ControllerShared(attempt) == 0

\* `new AbortController()` in the try block: the controller of the
\* `attempt`-th fetch of the check is one made for it.
Controller(attempt) == attempt

\* `setTimeout(function () { controller.abort() }, state.timeout)` for the
\* `attempt`-th fetch.
Timer(attempt) ==
  [attempt |-> attempt, controller |-> Controller(attempt),
   delay |-> Timeout(cfg)]

\* deadOrAliveInternal from its entry to `await fetch(...)`: the timer of
\* the fetch is armed.
FetchArmed ==
  /\ pc = "enter"
  /\ OnEnter
  /\ env' = IF pc' = "fetching"
            THEN [env EXCEPT !.timers = @ \cup {Timer(obs'.fetches)}]
            ELSE env
  /\ UNCHANGED <<cfg, href, call>>

\* The fetch rejects by itself (a network error): the catch clause, which
\* leaves the timer armed.
FetchFailed ==
  /\ pc = "fetching"
  /\ OnRejection
  /\ UNCHANGED <<cfg, href, env, call>>

\* The fetch resolves: `clearTimeout(id)`, then the rest of
\* deadOrAliveInternal.
FetchCleared ==
  /\ pc = "fetching"
  /\ \E response \in Responses : OnResponse(response)
  /\ env' = [env EXCEPT !.timers = {t \in @ : t.attempt # obs.fetches}]
  /\ UNCHANGED <<cfg, href, call>>

\* A timer fires: its controller aborts.  A fetch in flight on the signal of
\* that controller rejects; nothing else listens.
TimerFires ==
  \E t \in env.timers :
    /\ IF pc = "fetching" /\ Controller(obs.fetches) = t.controller
       THEN /\ OnRejection
            /\ env' = [env EXCEPT !.timers = @ \ {t}]
       ELSE /\ UNCHANGED <<state, url, pc, result, obs>>
            /\ env' = [env EXCEPT !.timers = @ \ {t}, !.late = TRUE]
    /\ UNCHANGED <<cfg, href, call>>

NextTimers ==
  \/ DeadOrAlive
  \/ FetchArmed
  \/ FetchFailed
  \/ FetchCleared
  \/ TimerFires
  \/ SleepElapsed
  \/ TextRejected
  \/ TextResolved

\* Timers do not look at fragments or anchors: the check is of a URL
\* without fragment, with anchor checking off.
InitTimers ==
  /\ Init
  /\ ~cfg.checkAnchor
  /\ href.valid
  /\ href.url.hash = <<>>

SpecTimers == InitTimers /\ [][NextTimers]_vars

\* The timer of the fetch in flight.
OwnTimer(t) == pc = "fetching" /\ t.attempt = obs.fetches

\* C32: the fetch in flight has one timer of its own, armed with the
\* configured timeout on a controller no other timer has; a timer that goes
\* away when its fetch is not the one in flight changes nothing of the
\* check (not the retry or the hop in flight, the sleep or the body read);
\* the timer of a fetch that got its response is cleared with the response,
\* so a timer still armed for a fetch that is over is that of a failed one.
C32_TimerAbortsOwnFetch ==
  /\ [](pc = "fetching" =>
          {t \in env.timers : t.attempt = obs.fetches}
            = {[attempt |-> obs.fetches, controller |-> obs.fetches,
                delay |-> IF cfg.timeout = None THEN 3000
                          ELSE Head(cfg.timeout)]})
  /\ [](\A t, u \in env.timers : t.controller = u.controller => t = u)
  /\ [](\A t \in env.timers :
          /\ t.attempt <= obs.fetches
          /\ ~OwnTimer(t) => (t.attempt < obs.fetches \/ obs.failures > 0))
  /\ [][ /\ \A t \in env.timers \ env'.timers :
              ~OwnTimer(t) => UNCHANGED <<state, url, pc, result, obs>>
         /\ Responded =>
              \A t \in env'.timers : t.attempt # obs.fetches ]_vars

\* C32 witness: a fetch failed, its timer fired later without effect, and
\* the check ended alive on a body it read.
C32_Witness ==
  /\ Alive
  /\ env.late
  /\ env.timers = {}
  /\ obs.read
  /\ obs.rejected > 0

--------------------------------------------------------------------------
(* propose *)

\* Strings are sequences of characters.
Characters == {"a", "b"}

\* The strings of at most `n` characters.
Strings(n) == UNION {[1..k -> Characters] : k \in 0..n}

\* What the ideas are made of.
IdeaWords == {<<"a", "b">>, <<"a", "b", "a">>, <<"a", "b", "b">>}

\* The lists of at most `n` ideas.
IdeaLists(n) == UNION {[1..k -> IdeaWords] : k \in 0..n}

Min(a, b) == IF a < b THEN a ELSE b

\* One row of the table of distances: `row` is the row of the character
\* before `character` (the distances to the prefixes of `other`), `done` what
\* is filled in of the row of `character`.
RECURSIVE LevenshteinRow(_, _, _, _)
LevenshteinRow(row, done, character, other) ==
  IF Len(done) = Len(row) THEN done
  ELSE LET j == Len(done)
           cost == IF other[j] = character THEN 0 ELSE 1
       IN LevenshteinRow(row,
                         Append(done, Min(Min(row[j + 1] + 1, done[j] + 1),
                                          row[j] + cost)),
                         character, other)

\* The last row of the table, from the row `row` on.
RECURSIVE LevenshteinRows(_, _, _)
LevenshteinRows(row, value, other) ==
  IF value = <<>> THEN row
  ELSE LevenshteinRows(LevenshteinRow(row, <<row[1] + 1>>, Head(value), other),
                       Tail(value), other)

\* levenshteinEditDistance of the package of that name: the least number of
\* insertions, deletions and substitutions of one character that turn
\* `value` into `other`.
levenshteinEditDistance(value, other) ==
  LevenshteinRows([j \in 1..(Len(other) + 1) |-> j - 1], value, other)[Len(other) + 1]

\* score(): the tuple of an idea and its score.  The score is the quotient
\* distance / length, kept as its two terms.
score(value, d) ==
  [idea |-> d,
   distance |-> levenshteinEditDistance(value, d),
   length |-> Len(value)]

\* sort(): `a[1] - b[1]`, by its sign (the lengths are positive).
sort(a, b) == a.distance * b.length - b.distance * a.length

\* Array.prototype.sort with sort(): a stable sort.  `d` goes in behind
\* every tuple that does not compare greater.
RECURSIVE Insert(_, _)
Insert(d, sorted) ==
  IF sorted = <<>> THEN <<d>>
  ELSE IF sort(Head(sorted), d) <= 0
  THEN <<Head(sorted)>> \o Insert(d, Tail(sorted))
  ELSE <<d>> \o sorted

RECURSIVE Sorted(_)
Sorted(tuples) ==
  IF tuples = <<>> THEN <<>>
  ELSE Insert(tuples[Len(tuples)], Sorted(SubSeq(tuples, 1, Len(tuples) - 1)))

\* Mutant of filter: the threshold is inclusive.
filterInclusive(d) == 2 * d.distance <= d.length

\* filter(): `d[1] < relativeThreshold`, the threshold being 0.5.
filter(d) == 2 * d.distance < d.length

\* pick().
pick(d) == d.idea

\* The most proposals.
max == 4

\* `ideas.map((d) => score(value, d))`.
RECURSIVE Scored(_, _)
Scored(value, ideas) ==
  IF ideas = <<>> THEN <<>>
  ELSE <<score(value, Head(ideas))>> \o Scored(value, Tail(ideas))

\* `.map((d) => pick(d))`.
RECURSIVE Picked(_)
Picked(tuples) ==
  IF tuples = <<>> THEN <<>>
  ELSE <<pick(Head(tuples))>> \o Picked(Tail(tuples))

\* propose: map score, sort, filter, map pick, slice(0, max).
propose(value, ideas) ==
  LET scored == Scored(value, ideas)
      kept == SelectSeq(Sorted(scored), filter)
      picked == Picked(kept)
  IN SubSeq(picked, 1, Min(max, Len(picked)))

\* No check runs: the options are the defaults, nothing was asked.
InitIdle ==
  /\ cfg = [anchorAllowlist |-> defaultAnchorAllowlist, checkAnchor |-> TRUE,
            findUrls |-> TRUE, followMetaHttpEquiv |-> TRUE,
            maxRedirects |-> 5, maxRetries |-> 1,
            resolveClobberPrefix |-> TRUE, sleep |-> "defaultSleep",
            timeout |-> None, userAgent |-> None]
  /\ href = [valid |-> TRUE, url |-> [path |-> 0, hash |-> <<>>]]
  /\ state = NewState
  /\ url = href.url
  /\ pc = "idle"
  /\ result = Pending
  /\ env = NoEnv
  /\ obs = NoHistory

\* A call of propose with a value that is not empty.
InitPropose ==
  /\ InitIdle
  /\ call \in [name : {"propose"},
                value : Strings(MaxValue) \ {<<>>},
                ideas : IdeaLists(MaxIdeas),
                output : {None}]

\* propose returns.
Propose ==
  /\ call.name = "propose"
  /\ call.output = None
  /\ call' = [call EXCEPT !.output = Some(propose(call.value, call.ideas))]
  /\ UNCHANGED <<cfg, href, state, url, pc, result, env, obs>>

NextPropose == Propose

SpecPropose == InitPropose /\ [][NextPropose]_vars

\* propose returned.
Proposed == call.name = "propose" /\ call.output # None

\* The distances of the ideas to the value, in the order of the ideas.
RECURSIVE Distances(_, _)
Distances(value, ideas) ==
  IF ideas = <<>> THEN <<>>
  ELSE <<levenshteinEditDistance(value, Head(ideas))>>
         \o Distances(value, Tail(ideas))

\* The reference: the ideas whose distance to the value, over the length of
\* the value, is below one half, by rank, the first four of them.  The rank
\* of an idea is the number of close ideas that come before it: those of a
\* lower score, and those of the same score at an earlier place.
Reference(value, ideas) ==
  LET distance == Distances(value, ideas)
      close == {i \in 1..Len(ideas) : 2 * distance[i] < Len(value)}
      rank == [i \in close |->
                 Cardinality({j \in close :
                                \/ distance[j] < distance[i]
                                \/ distance[j] = distance[i] /\ j < i})]
  IN [k \in 1..Min(4, Cardinality(close)) |->
        ideas[CHOOSE i \in close : rank[i] = k - 1]]

\* C33: for a value that is not empty, propose gives the reference: the
\* ideas scoring below 0.5, ascending by score, ties in their original
\* order, the first 4 at most.  So it gives at most 4 entries, all of them
\* ideas, no idea left out scores below one given, and nothing when no
\* idea is below the threshold.
C33_ProposeIsReference ==
  Proposed =>
    LET out == Head(call.output)
        ideas == call.ideas
        distance == Distances(call.value, ideas)
        given == {i \in 1..Len(ideas) : \E k \in 1..Len(out) : out[k] = ideas[i]}
    IN /\ out = Reference(call.value, ideas)
       /\ Len(out) <= 4
       /\ \A k \in 1..Len(out) : \E i \in given : out[k] = ideas[i]
       /\ \A i \in (1..Len(ideas)) \ given :
            \A j \in given : distance[i] >= distance[j]
       /\ (\A i \in 1..Len(ideas) : 2 * distance[i] >= Len(call.value)) =>
            out = <<>>

\* C33 witness: five ideas are close; four are given, the closest first
\* although it came later, then two as close as each other in the order
\* they came in.
C33_Witness ==
  /\ Proposed
  /\ Len(call.ideas) = 5
  /\ \A i \in 1..5 :
       2 * levenshteinEditDistance(call.value, call.ideas[i]) < Len(call.value)
  /\ Len(Head(call.output)) = 4
  /\ call.ideas[1] # Head(call.output)[1]
  /\ Head(call.output)[2] # Head(call.output)[3]
  /\ Head(call.output)[2] = call.ideas[1]
  /\ levenshteinEditDistance(call.value, Head(call.output)[2])
       = levenshteinEditDistance(call.value, Head(call.output)[3])

--------------------------------------------------------------------------
(* The proposals of missing-anchor *)

\* The characters of `user-content-`.
clobberPrefixText ==
  <<"u", "s", "e", "r", "-", "c", "o", "n", "t", "e", "n", "t", "-">>

\* The characters of a value.
RECURSIVE Text(_)
Text(value) ==
  IF value = <<>> THEN <<>>
  ELSE (IF Head(value) = clobberPrefix THEN clobberPrefixText
        ELSE <<Head(value)>>) \o Text(Tail(value))

\* The elements documents are made of here, in document order.
Document ==
  << [tagName |-> "h1", id |-> <<"a", "b", "b">>, name |-> <<>>],
     [tagName |-> "h1", id |-> <<clobberPrefix, "a", "b">>, name |-> <<>>],
     [tagName |-> "a", id |-> <<>>, name |-> <<"a", "a">>],
     [tagName |-> "a", id |-> <<>>, name |-> <<clobberPrefix, "a", "b", "b">>],
     [tagName |-> "h1", id |-> <<>>, name |-> <<"b", "b", "a">>],
     [tagName |-> "a", id |-> <<"a", "a", "a">>, name |-> <<clobberPrefix, "a", "a">>],
     [tagName |-> "h1", id |-> <<"b", "a">>, name |-> <<>>],
     [tagName |-> "a", id |-> <<>>, name |-> <<"b", "b", "b">>] >>

\* The elements of `elements` at the places in `places`, in order.
RECURSIVE Select(_, _, _)
Select(elements, places, i) ==
  IF i > Len(elements) THEN <<>>
  ELSE (IF i \in places THEN <<elements[i]>> ELSE <<>>)
         \o Select(elements, places, i + 1)

\* `map.get(value)`, and `map.set(value, anchor)` if there is none: the
\* keys of the map, in the order they were set in.
SetKey(keys, key) ==
  IF \E i \in 1..Len(keys) : keys[i] = key THEN keys ELSE Append(keys, key)

\* getAnchors: `[...anchors.keys()]`, for the elements in document order.
RECURSIVE AnchorKeys(_, _, _)
AnchorKeys(elements, options, keys) ==
  IF elements = <<>> THEN keys
  ELSE LET node == Head(elements)
           afterId == IF node.id # <<>>
                      THEN SetKey(keys, SetAnchor("Id", node.id, options).key)
                      ELSE keys
           afterName == IF node.tagName = "a" /\ node.name # <<>>
                        THEN SetKey(afterId,
                                    SetAnchor("Name", node.name, options).key)
                        ELSE afterId
       IN AnchorKeys(Tail(elements), options, afterName)

\* The backtick character.
Backtick == "[backtick]"

\* The idea between two backticks.
Quoted(d) == <<Backtick>> \o d \o <<Backtick>>

\* listFormat.format, a long English disjunction: A; A or B; A, B, or C.
RECURSIVE ListFormat(_)
ListFormat(items) ==
  IF items = <<>> THEN <<>>
  ELSE IF Len(items) = 1 THEN items[1]
  ELSE IF Len(items) = 2 THEN items[1] \o <<" or ">> \o items[2]
  ELSE IF Len(items) = 3
  THEN items[1] \o <<", ">> \o items[2] \o <<", or ">> \o items[3]
  ELSE items[1] \o <<", ">> \o ListFormat(Tail(items))

\* The map over the proposals that puts each between backticks.
RECURSIVE QuotedAll(_)
QuotedAll(ideas) ==
  IF ideas = <<>> THEN <<>>
  ELSE <<Quoted(Head(ideas))>> \o QuotedAll(Tail(ideas))

\* The characters of each key.
RECURSIVE Texts(_)
Texts(keys) ==
  IF keys = <<>> THEN <<>> ELSE <<Text(Head(keys))>> \o Texts(Tail(keys))

\* The reason of the missing-anchor message.
Reason(responseUrl, fragment, proposals) ==
  <<"Unexpected missing anchor element on ", Backtick, responseUrl, Backtick,
    " for fragment ", Backtick>> \o fragment
    \o <<Backtick, ", remove if unneeded or refer to an existing element">>
    \o (IF proposals # <<>> THEN <<" such as ">> \o proposals ELSE <<>>)

\* handleTextHtml from getAnchors on, for a fragment that is not
\* allowlisted: found, or the missing-anchor message.
MissingAnchor(fragment, elements, options) ==
  LET keys == AnchorKeys(elements, options, <<>>)
      proposals == ListFormat(QuotedAll(propose(Text(fragment), Texts(keys))))
  IN IF \E i \in 1..Len(keys) : keys[i] = fragment
     THEN [ruleId |-> "none", reason |-> <<>>]
     ELSE [ruleId |-> "missing-anchor",
           reason |-> Reason("https://example.com/", Text(fragment), proposals)]

\* A document served for a URL with a fragment, under checkAnchor.
InitAnchors ==
  /\ InitIdle
  /\ call \in [name : {"handleTextHtml"},
                fragment : Strings(MaxValue) \ {<<>>},
                places : SUBSET (1..Len(Document)),
                resolveClobberPrefix : BOOLEAN,
                output : {None}]

\* handleTextHtml ends.
CheckAnchor ==
  /\ call.name = "handleTextHtml"
  /\ call.output = None
  /\ call' = [call EXCEPT
               !.output =
                 Some(MissingAnchor(call.fragment,
                                    Select(Document, call.places, 1),
                                    [resolveClobberPrefix |->
                                       call.resolveClobberPrefix]))]
  /\ UNCHANGED <<cfg, href, state, url, pc, result, env, obs>>

NextAnchors == CheckAnchor

SpecAnchors == InitAnchors /\ [][NextAnchors]_vars

\* handleTextHtml ended with the missing-anchor message.
Missing ==
  /\ call.name = "handleTextHtml"
  /\ call.output # None
  /\ Head(call.output).ruleId = "missing-anchor"

\* The anchor names of a document: the `id` of every element and the `name`
\* of every `a`, without the clobber prefix when it is resolved, each name
\* once, at the place it comes first.
Names(elements, resolve) ==
  LET offered(e) ==
        (IF e.id # <<>> THEN <<e.id>> ELSE <<>>)
          \o (IF e.tagName = "a" /\ e.name # <<>> THEN <<e.name>> ELSE <<>>)
      all[i \in 0..Len(elements)] ==
        IF i = 0 THEN <<>> ELSE all[i - 1] \o offered(elements[i])
      stripped(v) == IF resolve /\ Head(v) = clobberPrefix THEN Tail(v) ELSE v
      names == [i \in 1..Len(all[Len(elements)]) |->
                  stripped(all[Len(elements)][i])]
      first == {i \in 1..Len(names) : \A j \in 1..(i - 1) : names[j] # names[i]}
      place[k \in 0..Len(names)] ==
        IF k = 0 THEN <<>>
        ELSE IF k \in first THEN Append(place[k - 1], names[k])
        ELSE place[k - 1]
  IN place[Len(names)]

\* What separates the entries of a list in a reason.
Separators == {", ", " or ", ", or "}

\* The entries of the list that follows `such as` in a reason, without
\* their backticks (none: no such clause).
Listed(reason) ==
  LET at == {i \in 1..Len(reason) : reason[i] = " such as "}
      from == IF at = {} THEN Len(reason) + 1 ELSE (CHOOSE i \in at : TRUE) + 1
      ends == {i \in from..Len(reason) :
                 i = Len(reason) \/ reason[i + 1] \in Separators}
      entry(i) ==
        LET start == CHOOSE s \in from..i :
                       /\ \A j \in s..i : reason[j] \notin Separators
                       /\ s = from \/ reason[s - 1] \in Separators
        IN SubSeq(reason, start + 1, i - 1)
      list[i \in (from - 1)..Len(reason)] ==
        IF i < from THEN <<>>
        ELSE IF i \in ends THEN Append(list[i - 1], entry(i))
        ELSE list[i - 1]
  IN list[Len(reason)]

\* C34: the reason of a missing-anchor message has a `such as` clause
\* exactly when propose(fragment, anchor names) gives something, and the
\* clause lists those proposals, in that order, four at most; the names are
\* the keys of the index, so a name behind a resolved clobber prefix is
\* proposed without the prefix.
C34_ProposalsInReason ==
  Missing =>
    LET reason == Head(call.output).reason
        names == Names(Select(Document, call.places, 1),
                       call.resolveClobberPrefix)
        proposals == propose(Text(call.fragment), Texts(names))
    IN /\ (\E i \in 1..Len(reason) : reason[i] = " such as ")
            <=> proposals # <<>>
       /\ Listed(reason) = proposals
       /\ Len(Listed(reason)) <= 4

\* C34 witness: five names are close to the fragment, one of them behind
\* the clobber prefix; four are listed, that one without its prefix.
C34_Witness ==
  /\ Missing
  /\ call.resolveClobberPrefix
  /\ call.fragment = <<"a", "b", "a">>
  /\ 2 \in call.places /\ 4 \notin call.places
  /\ Len(Listed(Head(call.output).reason)) = 4
  /\ Head(call.output).reason[Len(Head(call.output).reason) - 4] = ", or "
  /\ Listed(Head(call.output).reason)[2] = <<"a", "b">>
  /\ Len(Names(Select(Document, call.places, 1), TRUE)) >= 5

--------------------------------------------------------------------------
(* sharedDeclarativeRefresh *)

\* The double quote and the single quote.
DoubleQuote == "\""
SingleQuote == "'"

\* The start of an absolute URL whose host does not parse (`https://exa[`):
\* one character here.
BadHost == "https://exa["

\* `input.charCodeAt(position)`: the character at the 0-based `position`,
\* NaN past the end.
charCodeAt(input, position) ==
  IF position < Len(input) THEN input[position + 1] ELSE "NaN"

asciiDigit(code) ==
  code \in {"0", "1", "2", "3", "4", "5", "6", "7", "8", "9"}

dot(code) == code = "."

asciiDigitOrDot(code) == asciiDigit(code) \/ dot(code)

asciiWhitespace(code) == code \in {"\t", "\n", "\f", "\r", " "}

commaOrSemicolon(code) == code \in {",", ";"}

\* skipAsciiWhitespace: the position behind the whitespace at `position`.
RECURSIVE skipAsciiWhitespace(_, _)
skipAsciiWhitespace(input, position) ==
  IF position < Len(input) /\ asciiWhitespace(charCodeAt(input, position))
  THEN skipAsciiWhitespace(input, position + 1)
  ELSE position

\* Step 5: the position behind the digits at `position`.
RECURSIVE SkipDigits(_, _)
SkipDigits(input, position) ==
  IF position < Len(input) /\ asciiDigit(charCodeAt(input, position))
  THEN SkipDigits(input, position + 1)
  ELSE position

\* Step 8: the position behind the digits and dots at `position`.
RECURSIVE SkipDigitsAndDots(_, _)
SkipDigitsAndDots(input, position) ==
  IF position < Len(input) /\ asciiDigitOrDot(charCodeAt(input, position))
  THEN SkipDigitsAndDots(input, position + 1)
  ELSE position

\* `input.slice(position)`.
Slice(input, position) == SubSeq(input, position + 1, Len(input))

\* `urlString.indexOf(quote)`, 0-based; -1: not there.
IndexOf(urlString, quote) ==
  IF \E i \in 1..Len(urlString) : urlString[i] = quote
  THEN (CHOOSE i \in 1..Len(urlString) :
          /\ urlString[i] = quote
          /\ \A j \in 1..(i - 1) : urlString[j] # quote) - 1
  ELSE -1

\* Whether `new URL(urlString, from)` gives a URL: it does not when what
\* is left of the text without the leading spaces the URL parser drops names
\* a host that does not parse.
RECURSIVE CanParse(_)
CanParse(urlString) ==
  IF urlString = <<>> THEN TRUE
  ELSE IF asciiWhitespace(Head(urlString)) THEN CanParse(Tail(urlString))
  ELSE Head(urlString) # BadHost

\* Mutant of parse: a text that does not parse gives nothing.
parseAbsent(urlString, from) ==
  IF CanParse(urlString)
  THEN [kind |-> "URL", urlString |-> urlString, from |-> from]
  ELSE [kind |-> "undefined"]

\* parse(): the URL, or the message thrown.
parse(urlString, from) ==
  IF CanParse(urlString)
  THEN [kind |-> "URL", urlString |-> urlString, from |-> from]
  ELSE [kind |-> "throw", ruleId |-> "shared-declarative-refresh",
        fatal |-> TRUE, source |-> "dead-or-alive",
        urlString |-> urlString, from |-> from]

\* Mutant of skipQuotes: either quote character closes the text.
skipQuotesAnyQuote(input, at, from) ==
  LET code == charCodeAt(input, at)
      quoted == code \in {DoubleQuote, SingleQuote}
      position == IF quoted THEN at + 1 ELSE at
      urlString == Slice(input, position)
      index == Min(IF IndexOf(urlString, DoubleQuote) = -1 THEN Len(urlString)
                   ELSE IndexOf(urlString, DoubleQuote),
                   IF IndexOf(urlString, SingleQuote) = -1 THEN Len(urlString)
                   ELSE IndexOf(urlString, SingleQuote))
  IN parse(IF quoted THEN SubSeq(urlString, 1, index) ELSE urlString, from)

\* skipQuotes(), entered with `position` at `at`.
skipQuotes(input, at, from) ==
  LET code == charCodeAt(input, at)
      quoted == code \in {DoubleQuote, SingleQuote}
      position == IF quoted THEN at + 1 ELSE at
      urlString == Slice(input, position)
      index == IF quoted THEN IndexOf(urlString, code) ELSE -1
  IN parse(IF index # -1 THEN SubSeq(urlString, 1, index) ELSE urlString,
           from)

\* Nothing is returned.
Undefined == [kind |-> "undefined"]

\* Mutant of Keyword: no whitespace goes around the `=`.
KeywordWithoutSpaces(input, position, from) ==
  LET urlString == Slice(input, position)
  IN IF charCodeAt(input, position) \notin {"U", "u"}
     THEN skipQuotes(input, position, from)
     ELSE IF /\ charCodeAt(input, position + 1) \in {"R", "r"}
             /\ charCodeAt(input, position + 2) \in {"L", "l"}
             /\ charCodeAt(input, position + 3) = "="
     THEN skipQuotes(input, position + 4, from)
     ELSE parse(urlString, from)

\* Mutant of Keyword: what was read of the keyword is not in the URL text.
KeywordLosesLetters(input, position, from) ==
  IF charCodeAt(input, position) \notin {"U", "u"}
  THEN skipQuotes(input, position, from)
  ELSE IF charCodeAt(input, position + 1) \notin {"R", "r"}
  THEN parse(Slice(input, position + 1), from)
  ELSE IF charCodeAt(input, position + 2) \notin {"L", "l"}
  THEN parse(Slice(input, position + 2), from)
  ELSE LET equals == skipAsciiWhitespace(input, position + 3)
       IN IF charCodeAt(input, equals) # "="
          THEN parse(Slice(input, equals), from)
          ELSE skipQuotes(input, skipAsciiWhitespace(input, equals + 1), from)

\* Steps 11.1 to 11.8, with `position` behind the separator: `urlString`
\* is the rest of the input, which parse() takes as it is when the keyword
\* is not complete.
Keyword(input, position, from) ==
  LET urlString == Slice(input, position)
  IN IF charCodeAt(input, position) \notin {"U", "u"}
     THEN skipQuotes(input, position, from)
     ELSE IF charCodeAt(input, position + 1) \notin {"R", "r"}
     THEN parse(urlString, from)
     ELSE IF charCodeAt(input, position + 2) \notin {"L", "l"}
     THEN parse(urlString, from)
     ELSE LET equals == skipAsciiWhitespace(input, position + 3)
          IN IF charCodeAt(input, equals) # "="
             THEN parse(urlString, from)
             ELSE skipQuotes(input, skipAsciiWhitespace(input, equals + 1),
                             from)

\* Mutant of Separator: only a comma or semicolon lets the parser go on.
SeparatorNeeded(input, before) ==
  LET spaced == skipAsciiWhitespace(input, before)
  IN IF before < Len(input) /\ commaOrSemicolon(charCodeAt(input, spaced))
     THEN skipAsciiWhitespace(input, spaced + 1)
     ELSE before

\* Step 10, with `position` at `before`, behind the time: the position
\* behind the whitespace, the one separator and the whitespace.
Separator(input, before) ==
  IF before < Len(input)
  THEN LET spaced == skipAsciiWhitespace(input, before)
           separated == IF commaOrSemicolon(charCodeAt(input, spaced))
                        THEN spaced + 1
                        ELSE spaced
       IN skipAsciiWhitespace(input, separated)
  ELSE before

\* Mutant of NoTime: a dot does not start a time.
NoTimeWithDot(input, before, position) == position = before

\* Step 6: no digit was skipped and no dot follows.
NoTime(input, before, position) ==
  position = before /\ ~dot(charCodeAt(input, position))

sharedDeclarativeRefresh(input, from) ==
  LET start == skipAsciiWhitespace(input, 0)
      digits == SkipDigits(input, start)
  IN IF NoTime(input, start, digits)
     THEN Undefined
     ELSE LET before == SkipDigitsAndDots(input, digits)
              position == Separator(input, before)
          IN IF before = position \/ position = Len(input)
             THEN Undefined
             ELSE Keyword(input, position, from)

\* What the `content` strings are put together from, in this order: leading
\* whitespace, a time, whitespace, a separator, whitespace, a keyword, an
\* opening quote, a text, a closing quote, a rest.
Leads == {<<>>, <<"\t", " ">>}
Times == {<<>>, <<"0">>, <<".">>, <<"1", ".", "2">>, <<".", "5", ".">>}
Spaces == {<<>>, <<" ">>}
Separators2 == {<<>>, <<";">>, <<",">>}
Keywords ==
  {<<>>, <<"u">>, <<"u", "r">>, <<"u", "r", "l">>, <<"u", "r", "l", " ">>,
   <<"u", "r", "=">>,
   <<"u", "r", "l", "=">>, <<"U", "R", "L", "=">>, <<"u", "R", "l", "=">>,
   <<"u", "r", "l", " ", "=">>, <<"u", "r", "l", "=", " ">>,
   <<"u", "r", "l", "\t", "=", " ">>}
Quotes == {<<>>, <<SingleQuote>>, <<DoubleQuote>>}
UrlTexts ==
  {<<>>, <<"t", "o">>, <<BadHost>>, <<"t", DoubleQuote, "o">>,
   <<"u", "r", "l", "=", "x">>}
Rests == {<<>>, <<"c">>}

\* The parts of a `content` string.
Contents ==
  [lead : Leads, time : Times, before : Spaces, separator : Separators2,
   after : Spaces, keyword : Keywords, open : Quotes, text : UrlTexts,
   close : Quotes, rest : Rests]

\* The string the parts make.
Input(c) ==
  c.lead \o c.time \o c.before \o c.separator \o c.after \o c.keyword
    \o c.open \o c.text \o c.close \o c.rest

\* `new URL(response.url)`, the base.
From == "https://example.com/from"

\* A call of sharedDeclarativeRefresh.
InitRefresh ==
  /\ InitIdle
  /\ call \in [name : {"sharedDeclarativeRefresh"},
                content : Contents,
                from : {From},
                output : {None}]

\* sharedDeclarativeRefresh returns or throws.
Refresh ==
  /\ call.name = "sharedDeclarativeRefresh"
  /\ call.output = None
  /\ call' = [call EXCEPT
               !.output = Some(sharedDeclarativeRefresh(Input(call.content),
                                                        call.from))]
  /\ UNCHANGED <<cfg, href, state, url, pc, result, env, obs>>

NextRefresh == Refresh

SpecRefresh == InitRefresh /\ [][NextRefresh]_vars

\* sharedDeclarativeRefresh ended.
Refreshed == call.name = "sharedDeclarativeRefresh" /\ call.output # None

\* What it ended with.
Output == Head(call.output)

\* The string has a time, and whitespace or a separator behind it.
Directive(c) == c.time # <<>> /\ c.before \o c.separator \o c.after # <<>>

\* What is behind the time and the separator: from the keyword on, and
\* from the opening quote on.
FromKeyword(c) == c.keyword \o c.open \o c.text \o c.close \o c.rest
FromQuote(c) == c.open \o c.text \o c.close \o c.rest

\* The keywords that are complete, and those that are not.
CompleteKeywords == {k \in Keywords : k # <<>> /\ Len(k) >= 4 /\ k[3] \in {"l", "L"}
                                       /\ \E i \in 4..Len(k) : k[i] = "="}
IncompleteKeywords == Keywords \ (CompleteKeywords \cup {<<>>})

\* The text `s` up to the first `quote` in it, all of it if there is none.
UpTo(s, quote) ==
  IF \E i \in 1..Len(s) : s[i] = quote
  THEN SubSeq(s, 1, (CHOOSE i \in 1..Len(s) :
                       s[i] = quote /\ \A j \in 1..(i - 1) : s[j] # quote) - 1)
  ELSE s

\* What the parser gives for the URL text `text`.
Parsed(text) ==
  IF CanParse(text)
  THEN [kind |-> "URL", urlString |-> text, from |-> call.from]
  ELSE [kind |-> "throw", ruleId |-> "shared-declarative-refresh",
        fatal |-> TRUE, source |-> "dead-or-alive",
        urlString |-> text, from |-> call.from]

C37_AbsentWithoutRedirect ==
  Refreshed =>
    /\ call.content.time = <<>> => Output = Undefined
    /\ FromKeyword(call.content) = <<>> => Output = Undefined
    /\ call.content.time # <<>> =>
         \A time \in Times \ {<<>>} :
           Output = sharedDeclarativeRefresh(
                      Input([call.content EXCEPT !.time = time]), call.from)

\* C37 witness: a time that starts with a dot, a separator and whitespace,
\* and nothing else: nothing comes out.
C37_Witness ==
  /\ Refreshed
  /\ call.content.time = <<".", "5", ".">>
  /\ call.content.separator # <<>>
  /\ call.content.after # <<>>
  /\ FromKeyword(call.content) = <<>>
  /\ Output = Undefined

\* C38: a URL text that starts with a quote (behind the separator or behind
\* a complete keyword) is what lies between that quote and the next quote
\* of the same kind, whatever follows it; all of the rest if there is no
\* such quote; a quote of the other kind is part of the text.
C38_QuoteStripping ==
  (/\ Refreshed
   /\ Directive(call.content)
   /\ call.content.keyword \in CompleteKeywords \cup {<<>>}
   /\ call.content.open # <<>>) =>
    Output = Parsed(UpTo(call.content.text \o call.content.close
                           \o call.content.rest,
                         Head(call.content.open)))

\* C38 witness: a single quote, a text with a double quote in it, a single
\* quote and more text: the text with the double quote comes out.
C38_Witness ==
  /\ Refreshed
  /\ Directive(call.content)
  /\ call.content.keyword = <<>>
  /\ call.content.open = <<SingleQuote>>
  /\ call.content.close = <<SingleQuote>>
  /\ call.content.rest # <<>>
  /\ Output.kind = "URL"
  /\ Output.urlString = <<"t", DoubleQuote, "o">>

\* C39 (as claimed): with a complete keyword in front of any URL text, the
\* string gives what it gives without the keyword.
C39_KeywordTransparent ==
  (/\ Refreshed
   /\ call.content.time # <<>>
   /\ call.content.separator # <<>>
   /\ call.content.keyword \in CompleteKeywords) =>
    Output = sharedDeclarativeRefresh(
               Input([call.content EXCEPT !.keyword = <<>>]), call.from)

\* The text starts with a complete keyword itself.
StartsWithKeyword(t) ==
  /\ Len(t) >= 4
  /\ t[1] \in {"u", "U"} /\ t[2] \in {"r", "R"} /\ t[3] \in {"l", "L"}
  /\ charCodeAt(t, skipAsciiWhitespace(t, 3)) = "="

\* C39 (amended): the same, for a URL text that is not empty and does not
\* start with a complete keyword itself.
C39_KeywordTransparentForText ==
  (/\ Refreshed
   /\ call.content.time # <<>>
   /\ call.content.separator # <<>>
   /\ call.content.keyword \in CompleteKeywords
   /\ FromQuote(call.content) # <<>>
   /\ ~StartsWithKeyword(FromQuote(call.content))) =>
    Output = sharedDeclarativeRefresh(
               Input([call.content EXCEPT !.keyword = <<>>]), call.from)

\* C39 witness: a keyword in capitals with whitespace around the `=`, and a
\* quoted text.
C39_Witness ==
  /\ Refreshed
  /\ call.content.time # <<>>
  /\ call.content.separator # <<>>
  /\ call.content.keyword = <<"u", "r", "l", "\t", "=", " ">>
  /\ call.content.open = <<DoubleQuote>>
  /\ call.content.close = <<DoubleQuote>>
  /\ Output.kind = "URL"
  /\ Output.urlString = <<"t", "o">>

\* C40: with a keyword that is not complete, the URL text is all that is
\* behind the separator, from the `u` on, which is what quote stripping
\* gives for a text without keyword (it does not start with a quote).
C40_IncompleteKeywordKept ==
  (/\ Refreshed
   /\ Directive(call.content)
   /\ call.content.keyword \in IncompleteKeywords) =>
    /\ Output = Parsed(FromKeyword(call.content))
    /\ Output.urlString[1] \in {"u", "U"}

\* C40 witness: `ur` and a quoted text: all of it comes out, quotes
\* included.
C40_Witness ==
  /\ Refreshed
  /\ Directive(call.content)
  /\ call.content.keyword = <<"u", "r">>
  /\ call.content.open = <<SingleQuote>>
  /\ call.content.close = <<SingleQuote>>
  /\ Output.kind = "URL"
  /\ Output.urlString = <<"u", "r", SingleQuote, "t", "o", SingleQuote>>

--------------------------------------------------------------------------
(* A check that reads the `content` of a meta refresh *)

\* The `content` strings of the documents a check is answered with.
MetaContents ==
  {c \in Contents :
     /\ c.lead = <<>> /\ c.before = <<>> /\ c.after = <<>> /\ c.rest = <<>>
     /\ c.time = <<"0">>
     /\ c.separator \in {<<>>, <<";">>}
     /\ c.keyword \in {<<>>, <<"u", "r">>, <<"u", "r", "l", "=">>}
     /\ c.open \in {<<>>, <<SingleQuote>>}
     /\ c.close = c.open
     /\ c.text \in {<<"t", "o">>, <<BadHost>>}}

\* What handleTextHtml has of the meta refresh, for what
\* sharedDeclarativeRefresh ended with.
Meta(output) ==
  [kind |-> CASE output.kind = "URL" -> "url"
              [] output.kind = "throw" -> "invalid"
              [] OTHER -> "absent",
   hash |-> <<>>]

\* `await response.text()` resolves with a document that has a meta refresh
\* with a `content`, and the option to follow it is on:
\* sharedDeclarativeRefresh is called, and handleTextHtml goes on from
\* where it returns, or ends where it throws.
TextParsed ==
  /\ pc = "reading"
  /\ cfg.followMetaHttpEquiv
  /\ \E content \in MetaContents :
       LET from == ResponseUrl(url)
           output == sharedDeclarativeRefresh(Input(content), from)
       IN /\ OnText([elements |-> {}, meta |-> Meta(output), links |-> {}])
          /\ call' = [name |-> "sharedDeclarativeRefresh",
                      content |-> content,
                      from |-> from,
                      output |-> Some(output)]
  /\ UNCHANGED <<cfg, href, env>>

\* `await response.text()` resolves with a document without a meta refresh,
\* or with one that has no `content`.
TextWithoutContent ==
  /\ pc = "reading"
  /\ \E tree \in DocsFor(cfg, url) :
       /\ tree.meta.kind \in {"none", "no-content"}
       /\ OnText(tree)
  /\ UNCHANGED <<cfg, href, env, call>>

NextMeta ==
  \/ DeadOrAlive
  \/ DeadOrAliveInternal
  \/ FetchRejected
  \/ FetchResolved
  \/ SleepElapsed
  \/ TextRejected
  \/ TextWithoutContent
  \/ TextParsed

\* The checks that follow a meta refresh.
InitMeta ==
  /\ Init
  /\ cfg.followMetaHttpEquiv
  /\ ~cfg.checkAnchor
  /\ ~cfg.findUrls
  /\ href.valid
  /\ href.url.hash \in {<<>>, <<"hi">>}

SpecMeta == InitMeta /\ [][NextMeta]_vars

\* C35: sharedDeclarativeRefresh gives a URL only for a URL text that
\* resolves; for one that does not it throws a fatal
\* shared-declarative-refresh message of dead-or-alive that names the text
\* and the base, and gives neither nothing nor a URL; the check that called
\* it ends at once, dead, with that message first, behind a 2xx response.
C35_InvalidUrlIsFatal ==
  /\ [](Refreshed =>
         /\ Output.kind = "URL" => CanParse(Output.urlString)
         /\ Output.kind = "throw" =>
              /\ ~CanParse(Output.urlString)
              /\ Output.ruleId = "shared-declarative-refresh"
              /\ Output.source = "dead-or-alive"
              /\ Output.fatal
              /\ Output.from = call.from
         /\ (/\ Directive(call.content)
             /\ call.content.text = <<BadHost>>
             /\ call.content.keyword \in CompleteKeywords \cup {<<>>}) =>
              /\ Output.kind = "throw"
              /\ Output.urlString = <<BadHost>>)
  /\ [][(pc = "reading" /\ call'.name = "sharedDeclarativeRefresh"
         /\ call' # call /\ Head(call'.output).kind = "throw") =>
          /\ pc' = "done"
          /\ result'.status = "dead"
          /\ result'.messages[1] =
               VFileMessage(Head(call'.output).ruleId,
                            Head(call'.output).fatal,
                            <<Head(call'.output).from>>, 0)
          /\ result'.messages[1].ruleId = "shared-declarative-refresh"
          /\ result'.messages[1].fatal
          /\ Ok(obs.lastStatus)]_vars
  /\ []((Refreshed /\ Output.kind = "throw") => Dead)

\* C35 witness: a 200 document whose meta refresh names a quoted URL behind
\* a keyword that does not resolve, met behind a redirect that warned: the
\* check is dead, the parser's message before the warning.
C35_Witness ==
  /\ Dead
  /\ Refreshed
  /\ Output.kind = "throw"
  /\ Output.urlString = <<BadHost>>
  /\ call.content.keyword # <<>>
  /\ call.content.open # <<>>
  /\ obs.lastStatus = 200
  /\ Len(result.messages) = 2
  /\ result.messages[1].ruleId = "shared-declarative-refresh"
  /\ result.messages[2].ruleId = "lost-hash-with-redirect"

====
